---- MODULE Spec2Model ----
(***************************************************************************)
(* MicroReactor: entity/signal dispatcher (ur_core.c) with its power       *)
(* manager, pub/sub bus, ACL filter and supervisor extensions.             *)
(*                                                                         *)
(* An entity is a record; the inbox is a bounded FIFO; ur_dispatch is two  *)
(* steps of the dispatching thread (dequeue, then process) so that other   *)
(* threads (producers, the supervisor's timer service task) interleave.    *)
(* User callbacks (rule actions, on_entry, on_exit) are opaque: a call is  *)
(* appended to a call log and a plain action returns any value.            *)
(***************************************************************************)
EXTENDS Integers, Sequences, FiniteSets, Bags, TLC

(* ------------------------------------------------------------------ *)
(* Bounds of the model                                                *)
(* ------------------------------------------------------------------ *)
\* slots of an inbox (UR_CFG_INBOX_SIZE, a compile-time tunable, default 8)
InboxSize == 2
\* entities created by the application (ids 1..NumEnts)
NumEnts == 3

(* ------------------------------------------------------------------ *)
(* Program constants                                                  *)
(* ------------------------------------------------------------------ *)
UR_CFG_MAX_ENTITIES == 16
UR_CFG_MAX_MIXINS_PER_ENTITY == 4
UR_CFG_MAX_MIDDLEWARE == 8

SIG_NONE == 0
SIG_SYS_INIT == 1
SIG_SYS_ENTRY == 2
SIG_SYS_EXIT == 3
SIG_SYS_TICK == 4
SIG_SYS_TIMEOUT == 5
SIG_SYS_DYING == 6
SIG_SYS_REVIVE == 7

\* signals and states of the application (example_multi_entity)
SIG_TEMP_READING == 256
SIG_FAN_ON == 258
SIG_POWER_OFF == 263
SIG_LOW_BATTERY == 264

STATE_CTRL_NORMAL == 1
STATE_CTRL_COOLING == 2
\* ALARM is in no state table of the model
STATE_CTRL_ALARM == 3
STATE_CTRL_STANDBY == 4

Ents == 1 .. NumEnts

(* ------------------------------------------------------------------ *)
(* Static tables of the application (ur_state_def_t, ur_rule_t,        *)
(* ur_mixin_t).  action: "none" = NULL, "plain" = an ordinary action,  *)
(* "flow" = a uFlow coroutine (ur_flow.h).                             *)
(* ------------------------------------------------------------------ *)
UR_RULE(sig, next, act) == [signal_id |-> sig, next_state |-> next, action |-> act]

UR_STATE(sid, parent, entry, exit, rule_array) ==
    [id |-> sid, parent_id |-> parent, on_entry |-> entry, on_exit |-> exit,
     rules |-> rule_array]

\* STANDBY is the parent of NORMAL and COOLING; its SIG_POWER_OFF rule targets
\* STANDBY itself.  COOLING has neither on_entry nor on_exit.
StateTable ==
    << UR_STATE(STATE_CTRL_STANDBY, 0, TRUE, TRUE,
                << UR_RULE(SIG_POWER_OFF, STATE_CTRL_STANDBY, "plain"),
                   UR_RULE(SIG_FAN_ON, STATE_CTRL_NORMAL, "none") >>),
       UR_STATE(STATE_CTRL_NORMAL, STATE_CTRL_STANDBY, TRUE, TRUE,
                << UR_RULE(SIG_TEMP_READING, STATE_CTRL_COOLING, "plain"),
                   UR_RULE(SIG_FAN_ON, 0, "flow"),
                   UR_RULE(SIG_SYS_TICK, 0, "flow") >>),
       UR_STATE(STATE_CTRL_COOLING, STATE_CTRL_STANDBY, FALSE, FALSE,
                << UR_RULE(SIG_TEMP_READING, STATE_CTRL_NORMAL, "none"),
                   UR_RULE(SIG_FAN_ON, STATE_CTRL_COOLING, "plain") >>) >>

\* the mixin of the application (power_mixin)
MixinTable ==
    [power_mixin |->
        [priority |-> 10,
         rules |-> << UR_RULE(SIG_POWER_OFF, 0, "plain"),
                      UR_RULE(SIG_LOW_BATTERY, 0, "plain") >>],
     \* a mixin whose tick rule runs a flow that waits for a time ("timed")
     timer_mixin |->
        [priority |-> 20,
         rules |-> << UR_RULE(SIG_SYS_TICK, 0, "timed") >>],
     \* a mixin whose timeout rule runs a flow that waits and then leaves
     \* for another state ("goto")
     goto_mixin |->
        [priority |-> 30,
         rules |-> << UR_RULE(SIG_SYS_TIMEOUT, 0, "goto") >>],
     \* a mixin of higher precedence (lower priority value) than power_mixin
     \* with a rule for a signal power_mixin has a rule for, too
     override_mixin |->
        [priority |-> 5,
         rules |-> << UR_RULE(SIG_LOW_BATTERY, STATE_CTRL_COOLING, "none") >>]]

MixinNames == {"power_mixin"}

\* values a plain action may return: 0, a state id, or an id of no state
ActionReturns == {0, STATE_CTRL_STANDBY, STATE_CTRL_NORMAL, STATE_CTRL_COOLING, STATE_CTRL_ALARM}

\* ids ur_set_state is called with by the application
SetStateArgs == {STATE_CTRL_STANDBY, STATE_CTRL_NORMAL, STATE_CTRL_COOLING, STATE_CTRL_ALARM}

\* resume points of the modelled flow body (values of __LINE__)
FLOW_LINE_YIELD == 1
FLOW_LINE_AWAIT == 2
FLOW_LINE_TIME == 3
FLOW_LINE_GOTO == 4

\* the duration the timed flow waits for, in ms
AwaitMs == 3

\* A uint32_t is held as its bit pattern read in two's complement, the
\* integers of TLC having 32 bits: 0xFFFFFFFF is -1, 0x80000000 is
\* -INT32_MAX - 1.
INT32_MAX == 2147483647

\* a + b in uint32_t, for b in 0 .. INT32_MAX
u32_add(a, b) ==
    IF a > INT32_MAX - b THEN (a - INT32_MAX - 1) + (b - INT32_MAX - 1)
    ELSE a + b

\* a < b in uint32_t
u32_lt(a, b) == IF (a < 0) = (b < 0) THEN a < b ELSE b < 0

(* ------------------------------------------------------------------ *)
(* State                                                              *)
(* ------------------------------------------------------------------ *)
VARIABLES
    ents,      \* [Ents -> ur_entity_t]
    inbox,     \* [Ents -> sequence of signals]   (ent->inbox)
    disp,      \* [Ents -> position of the thread dispatching the entity]
    last,      \* the last completed call and what it did
    g_power,   \* ur_power.c: lock list
    g_bus,     \* ur_bus.c: topic table and statistics
    g_acl,     \* ur_acl.c: ACL entries and statistics
    g_sup,     \* ur_supervisor.c: supervisors, pending restart, timer
    g_entity_registry,  \* ur_core.c: ids of the registered entities
    g_param,   \* ur_param.c: parameter entries, batch mode
    nvs,       \* what the storage backend of the parameters holds
    clock,     \* the millisecond clock ur_get_time_ms reads (32 bits)
    walk,      \* a rule lookup or ancestor walk in progress, and its state table
    g_routes,  \* ur_wormhole.c: the route table
    pipe,      \* ur_pipe.c: the bytes in the stream buffer, oldest first
    decoder,   \* ur_codec.c: the streaming decoder (ur_codec_decoder_t)
    hist       \* history of the calls made, kept for the properties

\* state that only the operations of its own section change
ioVars == << pipe, decoder, hist >>
envVars == << g_param, nvs, clock, walk, g_routes, ioVars >>

vars == << ents, inbox, disp, last, g_power, g_bus, g_acl, g_sup,
           g_entity_registry, envVars >>

extVars == << g_power, g_bus, g_acl, g_sup, g_entity_registry, envVars >>

ur_signal_create(sid, src) == [id |-> sid, src_id |-> src]

(* ------------------------------------------------------------------ *)
(* ur_core.c: internal lookups                                        *)
(* ------------------------------------------------------------------ *)
NoState == [id |-> 0, parent_id |-> 0, on_entry |-> FALSE, on_exit |-> FALSE,
            rules |-> << >>]

NoRule == [signal_id |-> 0, next_state |-> 0, action |-> "none",
           owner |-> "none", owner_id |-> 0]

\* find_state: the first table entry with the id, NoState (NULL) if none
find_state(state_id) ==
    LET hits == {i \in 1 .. Len(StateTable) : StateTable[i].id = state_id}
    IN IF hits = {} THEN NoState
       ELSE StateTable[CHOOSE i \in hits : \A j \in hits : i <= j]

\* first rule of a rule array with the signal id, tagged with its owner
first_rule(rules, signal_id, owner, owner_id) ==
    LET hits == {i \in 1 .. Len(rules) : rules[i].signal_id = signal_id}
    IN IF hits = {} THEN NoRule
       ELSE LET r == rules[CHOOSE i \in hits : \A j \in hits : i <= j]
            IN [signal_id |-> r.signal_id, next_state |-> r.next_state,
                action |-> r.action, owner |-> owner, owner_id |-> owner_id]

find_rule_in_state(state, signal_id) ==
    IF state.id = 0 THEN NoRule
    ELSE first_rule(state.rules, signal_id, "state", state.id)

\* find_rule_in_mixins: the mixins in their bound order, from mixin i on
RECURSIVE find_rule_in_mixins(_, _, _)
find_rule_in_mixins(E, i, signal_id) ==
    LET found(r) == IF r.owner # "none" THEN r
                    ELSE find_rule_in_mixins(E, i + 1, signal_id)
    IN IF i > Len(E.mixins) THEN NoRule
       ELSE found(first_rule(MixinTable[E.mixins[i]].rules, signal_id, "mixin", i))

\* HSM bubble-up: while (state != NULL && state->parent_id != 0).  fuel
\* bounds the walk by the table length (the tables here are acyclic).
RECURSIVE bubble_up(_, _, _)
bubble_up(state, signal_id, fuel) ==
    IF state.id = 0 \/ state.parent_id = 0 \/ fuel = 0 THEN NoRule
    ELSE LET p == find_state(state.parent_id)
             r == find_rule_in_state(p, signal_id)
         IN IF r.owner # "none"
            THEN [r EXCEPT !.owner = "parent"]
            ELSE bubble_up(p, signal_id, fuel - 1)

\* a lookup with an implicit rule: a signal that nothing matches sends the
\* entity back to its initial state
cascading_lookup_implicit(E, signal_id) ==
    LET state == find_state(E.current_state)
        r1 == find_rule_in_state(state, signal_id)
        r2 == find_rule_in_mixins(E, 1, signal_id)
        r3 == bubble_up(state, signal_id, Len(StateTable))
    IN IF r1.owner # "none" THEN r1
       ELSE IF r2.owner # "none" THEN r2
       ELSE IF r3.owner # "none" THEN r3
       ELSE [signal_id |-> signal_id, next_state |-> E.initial_state,
             action |-> "none", owner |-> "state", owner_id |-> E.current_state]

cascading_lookup_parents_first(E, signal_id) ==
    LET state == find_state(E.current_state)
        r1 == find_rule_in_state(state, signal_id)
        r2 == find_rule_in_mixins(E, 1, signal_id)
        r3 == bubble_up(state, signal_id, Len(StateTable))
    IN IF r1.owner # "none" THEN r1
       ELSE IF r3.owner # "none" THEN r3
       ELSE r2

cascading_lookup(E, signal_id) ==
    LET state == find_state(E.current_state)
        r1 == find_rule_in_state(state, signal_id)
        r2 == find_rule_in_mixins(E, 1, signal_id)
    IN IF r1.owner # "none" THEN r1
       ELSE IF r2.owner # "none" THEN r2
       ELSE bubble_up(state, signal_id, Len(StateTable))

(* ------------------------------------------------------------------ *)
(* ur_core.c: state transition                                        *)
(* ------------------------------------------------------------------ *)
\* the flow fields of an entity
FlowOf(E) == [line |-> E.flow_line, wait_sig |-> E.flow_wait_sig,
              wait_until |-> E.flow_wait_until,
              running |-> "FLOW_RUNNING" \in E.flags]

FlowZero == [line |-> 0, wait_sig |-> SIG_NONE, wait_until |-> 0, running |-> FALSE]

\* a reset of the resume line alone
flow_reset_line_only(E) ==
    [E EXCEPT !.flow_line = 0, !.flags = @ \ {"FLOW_RUNNING"}]

\* "Reset flow state" (ur_set_state, ur_stop)
flow_reset(E) ==
    [E EXCEPT !.flow_line = 0, !.flow_wait_sig = SIG_NONE,
              !.flow_wait_until = 0, !.flags = @ \ {"FLOW_RUNNING"}]

\* exit part of ur_set_state: on_exit of the current state, then flow reset
set_state_exit(E) ==
    IF E.current_state # 0
    THEN [ent |-> flow_reset(E),
          calls |-> IF find_state(E.current_state).on_exit
                    THEN << <<"on_exit", E.current_state>> >> ELSE << >>]
    ELSE [ent |-> E, calls |-> << >>]

\* entry part of ur_set_state: on_entry of the new state
set_state_entry(state_id) ==
    IF find_state(state_id).on_entry
    THEN << <<"on_entry", state_id>> >> ELSE << >>

\* a ur_set_state that enters the new state before it exits the old one
ur_set_state_res_entry_first(E, state_id) ==
    IF find_state(state_id).id = 0
    THEN [err |-> "UR_ERR_NOT_FOUND", ent |-> E, calls |-> << >>]
    ELSE LET x == set_state_exit(E)
         IN [err |-> "UR_OK",
             ent |-> [x.ent EXCEPT !.current_state = state_id],
             calls |-> set_state_entry(state_id) \o x.calls]

\* a ur_set_state that returns early when state_id is the current state
ur_set_state_res_skip_same(E, state_id) ==
    IF find_state(state_id).id = 0
    THEN [err |-> "UR_ERR_NOT_FOUND", ent |-> E, calls |-> << >>]
    ELSE IF state_id = E.current_state
    THEN [err |-> "UR_OK", ent |-> E, calls |-> << >>]
    ELSE LET x == set_state_exit(E)
         IN [err |-> "UR_OK",
             ent |-> [x.ent EXCEPT !.current_state = state_id],
             calls |-> x.calls \o set_state_entry(state_id)]

\* ur_set_state: no comparison of state_id with the current state is made
ur_set_state_res(E, state_id) ==
    IF find_state(state_id).id = 0
    THEN [err |-> "UR_ERR_NOT_FOUND", ent |-> E, calls |-> << >>]
    ELSE LET x == set_state_exit(E)
         IN [err |-> "UR_OK",
             ent |-> [x.ent EXCEPT !.current_state = state_id],
             calls |-> x.calls \o set_state_entry(state_id)]

execute_transition_no_exit(E, next_state) ==
    [err |-> "UR_OK",
     ent |-> [E EXCEPT !.current_state = next_state, !.flow_line = 0,
                       !.flow_wait_sig = SIG_NONE, !.flow_wait_until = 0,
                       !.flags = @ \ {"FLOW_RUNNING"}],
     calls |-> IF find_state(next_state).on_entry
               THEN << <<"on_entry", next_state>> >> ELSE << >>]

execute_transition(E, next_state) == ur_set_state_res(E, next_state)

(* ------------------------------------------------------------------ *)
(* ur_flow.h: the flow action of the application                      *)
(*   UR_FLOW_BEGIN; UR_YIELD; UR_AWAIT_SIGNAL(SIG_FAN_ON); UR_FLOW_END     *)
(* ------------------------------------------------------------------ *)
\* a flow body without the jump to the saved point: every call runs from
\* UR_FLOW_BEGIN to the first UR_YIELD
flow_action_from_begin(E, sig) ==
    [ent |-> [E EXCEPT !.flags = @ \cup {"FLOW_RUNNING"},
                       !.flow_line = FLOW_LINE_YIELD],
     ret |-> 0, calls |-> << >>]

flow_action(E, sig) ==
    LET B == [E EXCEPT !.flags = @ \cup {"FLOW_RUNNING"}]
    IN IF B.flow_line = 0
       THEN \* UR_YIELD
            [ent |-> [B EXCEPT !.flow_line = FLOW_LINE_YIELD], ret |-> 0, calls |-> << >>]
       ELSE IF B.flow_line = FLOW_LINE_YIELD
       THEN \* resumed after the yield; UR_AWAIT_SIGNAL saves and returns
            [ent |-> [B EXCEPT !.flow_wait_sig = SIG_FAN_ON,
                               !.flow_line = FLOW_LINE_AWAIT], ret |-> 0, calls |-> << >>]
       ELSE IF B.flow_line = FLOW_LINE_AWAIT /\ sig.id # B.flow_wait_sig
       THEN [ent |-> B, ret |-> 0, calls |-> << >>]
       ELSE \* awaited signal arrived (or no case label): UR_FLOW_END
            [ent |-> [B EXCEPT !.flow_wait_sig = SIG_NONE, !.flow_line = 0,
                               !.flags = @ \ {"FLOW_RUNNING"}], ret |-> 0, calls |-> << >>]

\* The flow with a time wait, called at clock value now:
\*   UR_FLOW_BEGIN; UR_AWAIT_TIME(AwaitMs); UR_FLOW_END
timed_flow_action(E, now) ==
    LET B == [E EXCEPT !.flags = @ \cup {"FLOW_RUNNING"}]
    IN IF B.flow_line = 0
       THEN \* flow_wait_until = ur_get_time_ms() + (ms), in 32 bits
            [ent |-> [B EXCEPT !.flow_wait_until = u32_add(now, AwaitMs),
                               !.flow_line = FLOW_LINE_TIME],
             ret |-> 0, calls |-> << >>]
       ELSE IF B.flow_line = FLOW_LINE_TIME /\ u32_lt(now, B.flow_wait_until)
       THEN [ent |-> B, ret |-> 0, calls |-> << >>]
       ELSE \* the wait is over (or no case label): UR_FLOW_END
            [ent |-> [B EXCEPT !.flow_line = 0, !.flags = @ \ {"FLOW_RUNNING"}],
             ret |-> 0, calls |-> << >>]

\* a flow-goto that leaves the resume line in place
goto_flow_action_keep_line(E, now, state_id) ==
    IF E.flow_line = 0
    THEN [ent |-> [E EXCEPT !.flags = @ \cup {"FLOW_RUNNING"},
                            !.flow_wait_until = u32_add(now, AwaitMs),
                            !.flow_line = FLOW_LINE_GOTO],
          ret |-> 0, calls |-> << >>]
    ELSE IF u32_lt(now, E.flow_wait_until)
    THEN [ent |-> E, ret |-> 0, calls |-> << >>]
    ELSE [ent |-> [E EXCEPT !.flags = @ \ {"FLOW_RUNNING"}], ret |-> state_id,
          calls |-> << >>]

\* The flow that waits and then leaves for state_id:
\*   UR_FLOW_BEGIN; UR_AWAIT_TIME(AwaitMs); UR_FLOW_GOTO(state_id); UR_FLOW_END
goto_flow_action_late_wake(E, now, state_id) ==
    LET B == [E EXCEPT !.flags = @ \cup {"FLOW_RUNNING"}]
    IN IF B.flow_line = 0
       THEN [ent |-> [B EXCEPT !.flow_wait_until = u32_add(now, AwaitMs),
                               !.flow_line = FLOW_LINE_GOTO],
             ret |-> 0, calls |-> << >>]
       ELSE IF B.flow_line = FLOW_LINE_GOTO /\ ~u32_lt(B.flow_wait_until, now)
       THEN [ent |-> B, ret |-> 0, calls |-> << >>]
       ELSE [ent |-> [B EXCEPT !.flow_line = 0, !.flags = @ \ {"FLOW_RUNNING"}],
             ret |-> IF B.flow_line = FLOW_LINE_GOTO THEN state_id ELSE 0,
             calls |-> << >>]

goto_flow_action(E, now, state_id) ==
    LET B == [E EXCEPT !.flags = @ \cup {"FLOW_RUNNING"}]
    IN IF B.flow_line = 0
       THEN [ent |-> [B EXCEPT !.flow_wait_until = u32_add(now, AwaitMs),
                               !.flow_line = FLOW_LINE_GOTO],
             ret |-> 0, calls |-> << >>]
       ELSE IF B.flow_line = FLOW_LINE_GOTO /\ u32_lt(now, B.flow_wait_until)
       THEN [ent |-> B, ret |-> 0, calls |-> << >>]
       ELSE IF B.flow_line = FLOW_LINE_GOTO
       THEN \* UR_FLOW_GOTO: flow_line = 0, flag cleared, return (state_id)
            [ent |-> [B EXCEPT !.flow_line = 0, !.flags = @ \ {"FLOW_RUNNING"}],
             ret |-> state_id, calls |-> << >>]
       ELSE \* no case label: UR_FLOW_END
            [ent |-> [B EXCEPT !.flow_line = 0, !.flags = @ \ {"FLOW_RUNNING"}],
             ret |-> 0, calls |-> << >>]

(* ------------------------------------------------------------------ *)
(* ur_acl.c: matching and filtering                                   *)
(* ------------------------------------------------------------------ *)
UR_ACL_SRC_ANY == 0
UR_ACL_SRC_LOCAL == 65534
UR_ACL_SRC_EXTERNAL == 65535
UR_ACL_SIG_ANY == 0
UR_ACL_SIG_SYSTEM == 255
UR_ACL_SIG_USER == 65535

match_source_no_literal(rule_src, actual_src) ==
    IF rule_src = UR_ACL_SRC_ANY THEN TRUE
    ELSE IF rule_src = UR_ACL_SRC_LOCAL
    THEN actual_src >= 1 /\ actual_src <= UR_CFG_MAX_ENTITIES
    ELSE IF rule_src = UR_ACL_SRC_EXTERNAL
    THEN actual_src = 0 \/ actual_src > UR_CFG_MAX_ENTITIES
    ELSE TRUE

match_source(rule_src, actual_src) ==
    IF rule_src = UR_ACL_SRC_ANY THEN TRUE
    ELSE IF rule_src = UR_ACL_SRC_LOCAL
    THEN actual_src >= 1 /\ actual_src <= UR_CFG_MAX_ENTITIES
    ELSE IF rule_src = UR_ACL_SRC_EXTERNAL
    THEN actual_src = 0 \/ actual_src > UR_CFG_MAX_ENTITIES
    ELSE rule_src = actual_src

match_signal(rule_sig, actual_sig) ==
    IF rule_sig = UR_ACL_SIG_ANY THEN TRUE
    ELSE IF rule_sig = UR_ACL_SIG_SYSTEM
    THEN actual_sig >= 1 /\ actual_sig <= 255
    ELSE IF rule_sig = UR_ACL_SIG_USER
    THEN actual_sig >= 256
    ELSE rule_sig = actual_sig

rule_matches(rule, sig) ==
    match_source(rule.src_id, sig.src_id) /\ match_signal(rule.signal_id, sig.id)

\* index of the ACL entry of an entity, 0 if none
find_acl_entry(acl, entity_id) ==
    LET hits == {i \in 1 .. Len(acl.entries) : acl.entries[i].entity_id = entity_id}
    IN IF hits = {} THEN 0 ELSE CHOOSE i \in hits : \A j \in hits : i <= j

\* a lookup that lets the last matching rule win
find_matching_rule_last(entry, sig) ==
    LET hits == {i \in 1 .. Len(entry.rules) : rule_matches(entry.rules[i], sig)}
    IN IF hits = {} THEN 0 ELSE CHOOSE i \in hits : \A j \in hits : j <= i

\* index of the first rule of the entry that matches, 0 if none
find_matching_rule(entry, sig) ==
    LET hits == {i \in 1 .. Len(entry.rules) : rule_matches(entry.rules[i], sig)}
    IN IF hits = {} THEN 0 ELSE CHOOSE i \in hits : \A j \in hits : i <= j

bump(stats, field) == [stats EXCEPT ![field] = @ + 1]

ur_acl_check_res(acl, entity_id, sig) ==
    IF ~acl.initialized THEN [action |-> "UR_ACL_ALLOW", acl |-> acl]
    ELSE LET a1 == [acl EXCEPT !.stats = bump(@, "checked_count")]
             ei == find_acl_entry(acl, entity_id)
         IN IF ei = 0
            THEN [action |-> "UR_ACL_ALLOW",
                  acl |-> [a1 EXCEPT !.stats = bump(@, "default_count")]]
            ELSE LET entry == acl.entries[ei]
                     ri == find_matching_rule(entry, sig)
                 IN IF ri # 0
                    THEN [action |-> entry.rules[ri].action, acl |-> a1]
                    ELSE [action |-> IF entry.default_policy = "UR_ACL_DEFAULT_ALLOW"
                                     THEN "UR_ACL_ALLOW" ELSE "UR_ACL_DENY",
                          acl |-> [a1 EXCEPT !.stats = bump(@, "default_count")]]

\* tallow: what the transform callback returns when it is called
ur_acl_filter_res(acl, entity_id, sig, tallow) ==
    LET has_transform ==
            \E i \in 1 .. Len(acl.entries) :
                /\ i = find_acl_entry(acl, entity_id)
                /\ acl.entries[i].transform_fn
        \* the switch on c, the outcome of ur_acl_check
        switch(c) ==
            IF c.action = "UR_ACL_ALLOW"
            THEN [pass |-> TRUE,
                  acl |-> [c.acl EXCEPT !.stats = bump(@, "allowed_count")]]
            ELSE IF c.action = "UR_ACL_DENY"
            THEN [pass |-> FALSE,
                  acl |-> [c.acl EXCEPT !.stats = bump(@, "denied_count")]]
            ELSE IF c.action = "UR_ACL_LOG"
            THEN [pass |-> TRUE,
                  acl |-> [c.acl EXCEPT !.stats =
                             bump(bump(@, "logged_count"), "allowed_count")]]
            ELSE \* UR_ACL_TRANSFORM
                 IF has_transform
                 THEN IF tallow
                      THEN [pass |-> TRUE,
                            acl |-> [c.acl EXCEPT !.stats =
                                       bump(bump(@, "transformed_count"), "allowed_count")]]
                      ELSE [pass |-> FALSE,
                            acl |-> [c.acl EXCEPT !.stats = bump(@, "denied_count")]]
                 ELSE [pass |-> TRUE,
                       acl |-> [c.acl EXCEPT !.stats = bump(@, "allowed_count")]]
    IN switch(ur_acl_check_res(acl, entity_id, sig))

ur_acl_middleware(acl, entity_id, sig, tallow) ==
    LET result(f) ==
            [result |-> IF f.pass THEN "UR_MW_CONTINUE" ELSE "UR_MW_FILTERED",
             acl |-> f.acl]
    IN result(ur_acl_filter_res(acl, entity_id, sig, tallow))

(* ------------------------------------------------------------------ *)
(* ur_supervisor.c: supervisor middleware                             *)
(* ------------------------------------------------------------------ *)
ur_mw_supervisor(E, sig) ==
    IF "SUPERVISOR" \notin E.flags THEN "UR_MW_CONTINUE"
    ELSE IF sig.id = SIG_SYS_DYING THEN "UR_MW_HANDLED"
    ELSE "UR_MW_CONTINUE"

(* ------------------------------------------------------------------ *)
(* ur_core.c: middleware chain and dispatch                           *)
(* ------------------------------------------------------------------ *)
\* run_middleware_chain from middleware i on; FILTERED and HANDLED end it
RECURSIVE run_middleware_chain_to_end(_, _, _, _, _, _)
run_middleware_chain_to_end(E, entity_id, sig, acl, tallow, i) ==
    LET after(r) ==
            IF r.result \in {"UR_MW_FILTERED", "UR_MW_HANDLED"}
            THEN [result |-> r.result,
                  acl |-> run_middleware_chain_to_end(E, entity_id, sig, r.acl,
                                                      tallow, i + 1).acl]
            ELSE run_middleware_chain_to_end(E, entity_id, sig, r.acl, tallow, i + 1)
    IN IF i > Len(E.middleware) THEN [result |-> "UR_MW_CONTINUE", acl |-> acl]
       ELSE IF ~E.middleware[i].enabled
       THEN run_middleware_chain_to_end(E, entity_id, sig, acl, tallow, i + 1)
       ELSE after(IF E.middleware[i].fn = "ur_acl_middleware"
                  THEN ur_acl_middleware(acl, entity_id, sig, tallow)
                  ELSE [result |-> ur_mw_supervisor(E, sig), acl |-> acl])

RECURSIVE run_middleware_chain(_, _, _, _, _, _)
run_middleware_chain(E, entity_id, sig, acl, tallow, i) ==
    LET after(r) ==
            IF r.result \in {"UR_MW_FILTERED", "UR_MW_HANDLED"} THEN r
            ELSE run_middleware_chain(E, entity_id, sig, r.acl, tallow, i + 1)
    IN IF i > Len(E.middleware) THEN [result |-> "UR_MW_CONTINUE", acl |-> acl]
       ELSE IF ~E.middleware[i].enabled
       THEN run_middleware_chain(E, entity_id, sig, acl, tallow, i + 1)
       ELSE after(IF E.middleware[i].fn = "ur_acl_middleware"
                  THEN ur_acl_middleware(acl, entity_id, sig, tallow)
                  ELSE [result |-> ur_mw_supervisor(E, sig), acl |-> acl])

\* the rule's action: ret is what the action returns (r for a plain action)
run_action_twice(E, rule, sig, r, now) ==
    IF rule.action = "none" THEN [ent |-> E, ret |-> 0, calls |-> << >>]
    ELSE [ent |-> E, ret |-> IF rule.action = "plain" THEN r ELSE 0,
          calls |-> << <<"action", rule.signal_id>>, <<"action", rule.signal_id>> >>]

run_action(E, rule, sig, r, now) ==
    IF rule.action = "plain" THEN [ent |-> E, ret |-> r, calls |-> << <<"action", rule.signal_id>> >>]
    ELSE IF rule.action = "flow"
    THEN [flow_action(E, sig) EXCEPT !.calls = << <<"action", rule.signal_id>> >>]
    ELSE IF rule.action = "timed"
    THEN [timed_flow_action(E, now) EXCEPT !.calls = << <<"action", rule.signal_id>> >>]
    ELSE IF rule.action = "goto"
    THEN [goto_flow_action(E, now, r) EXCEPT !.calls = << <<"action", rule.signal_id>> >>]
    ELSE [ent |-> E, ret |-> 0, calls |-> << >>]

\* a dispatcher that takes the action's result alone (0 = stay)
dispatch_next_state_result_only(rule, action_result) ==
    IF rule.action # "none" THEN action_result ELSE rule.next_state

\* next state of a dispatch: the action's result overrides the rule's
\* next_state only when it is not 0
dispatch_next_state(rule, action_result) ==
    IF action_result # 0 THEN action_result ELSE rule.next_state

\* a dispatcher that also treats the parent of the current state as current
dispatch_transitions_not_to_parent(E, next_state) ==
    /\ next_state # 0
    /\ next_state # E.current_state
    /\ next_state # find_state(E.current_state).parent_id

\* whether the dispatcher calls execute_transition
dispatch_transitions(E, next_state) ==
    next_state # 0 /\ next_state # E.current_state

\* ur_dispatch after the dequeue: middleware, lookup, action, transition
ur_dispatch_process_res(E, entity_id, sig, acl, r, tallow, now) ==
    LET \* filtered, handled, or no rule found
        stay(mw, looked_up) ==
            [ent |-> E, acl |-> mw.acl, mw |-> mw.result, looked_up |-> looked_up,
             rule |-> NoRule, ret |-> 0, next_state |-> 0, calls |-> << >>]
        done(mw, rule, a, next_state, t) ==
            [ent |-> t.ent, acl |-> mw.acl, mw |-> mw.result, looked_up |-> TRUE,
             rule |-> rule, ret |-> a.ret, next_state |-> next_state,
             calls |-> a.calls \o t.calls]
        \* "Execute transition if needed"
        transit(mw, rule, a, next_state) ==
            done(mw, rule, a, next_state,
                 IF dispatch_transitions(a.ent, next_state)
                 THEN execute_transition(a.ent, next_state)
                 ELSE [err |-> "UR_OK", ent |-> a.ent, calls |-> << >>])
        \* a: the outcome of the rule's action
        acted(mw, rule, a) ==
            transit(mw, rule, a, dispatch_next_state(rule, a.ret))
        \* rule: the outcome of cascading_lookup
        found(mw, rule) ==
            IF rule.owner = "none" THEN stay(mw, TRUE)
            ELSE acted(mw, rule, run_action(E, rule, sig, r, now))
        \* mw: the outcome of the middleware chain
        after_middleware(mw) ==
            IF mw.result \in {"UR_MW_FILTERED", "UR_MW_HANDLED"}
            THEN stay(mw, FALSE)
            ELSE found(mw, cascading_lookup(E, sig.id))
    IN after_middleware(run_middleware_chain(E, entity_id, sig, acl, tallow, 1))

(* ------------------------------------------------------------------ *)
(* Initial state: every entity after ur_init, every table empty        *)
(* ------------------------------------------------------------------ *)
NoSig == [id |-> SIG_NONE, src_id |-> 0]

ur_init_res ==
    [current_state |-> 0, initial_state |-> STATE_CTRL_STANDBY, flags |-> {},
     flow_line |-> 0, flow_wait_sig |-> SIG_NONE, flow_wait_until |-> 0,
     mixins |-> << >>, middleware |-> << >>, supervisor_id |-> 0]

AclStatsZero ==
    [checked_count |-> 0, allowed_count |-> 0, denied_count |-> 0,
     logged_count |-> 0, transformed_count |-> 0, default_count |-> 0]

BusStatsZero ==
    [publish_count |-> 0, delivery_count |-> 0, drop_count |-> 0,
     no_subscriber_count |-> 0]

\* no walk in progress
NoWalk == [pc |-> "idle"]

\* g_param = { 0 }
ParamZero ==
    [entries |-> << >>, storage |-> FALSE, batch_mode |-> FALSE,
     initialized |-> FALSE, at_begin |-> << >>]

\* no call recorded
HistZero ==
    [lock_calls |-> EmptyBag, unlock_calls |-> EmptyBag, earlier |-> EmptyBag]

\* the state after construction, the clock and the walk apart
InitProgram ==
    /\ ents = [e \in Ents |-> ur_init_res]
    /\ inbox = [e \in Ents |-> << >>]
    /\ disp = [e \in Ents |-> [pc |-> "idle", sig |-> NoSig]]
    /\ last = [op |-> "none"]
    /\ g_power = [initialized |-> FALSE, locks |-> << >>]
    /\ g_bus = [initialized |-> FALSE, topics |-> << >>, stats |-> BusStatsZero]
    /\ g_acl = [initialized |-> FALSE, entries |-> << >>, stats |-> AclStatsZero]
    /\ g_sup = [supervisors |-> << >>, pending |-> 0, timer_active |-> FALSE,
                awaiting |-> {}]
    /\ g_entity_registry = {}
    /\ g_param = ParamZero
    /\ nvs = << >>
    /\ g_routes = << >>
    /\ pipe = << >>
    /\ decoder = [in_frame |-> FALSE, buffer |-> << >>, expected_len |-> 0]
    /\ hist = HistZero

Init == InitProgram /\ clock = 0 /\ walk = NoWalk

(* ------------------------------------------------------------------ *)
(* ur_core.c: emission                                                *)
(* ------------------------------------------------------------------ *)
\* a send that makes room by dropping the oldest signal
ur_emit_res_drop_oldest(q, sig) ==
    IF Len(q) >= InboxSize
    THEN [err |-> "UR_OK", q |-> Append(Tail(q), sig)]
    ELSE [err |-> "UR_OK", q |-> Append(q, sig)]

\* xQueueSend with no wait: fails when every slot is taken
ur_emit_res(q, sig) ==
    IF Len(q) >= InboxSize
    THEN [err |-> "UR_ERR_QUEUE_FULL", q |-> q]
    ELSE [err |-> "UR_OK", q |-> Append(q, sig)]

ur_emit(target, sig) ==
    \E r \in {ur_emit_res(inbox[target], sig)} :
       /\ inbox' = [inbox EXCEPT ![target] = r.q]
       /\ last' = [op |-> "ur_emit", ent |-> target, sig |-> sig, err |-> r.err]
       /\ UNCHANGED << ents, disp, extVars >>

\* xQueueSendFromISR: as ur_emit, from an interrupt handler
ur_emit_from_isr(target, sig) ==
    \E r \in {ur_emit_res(inbox[target], sig)} :
       /\ inbox' = [inbox EXCEPT ![target] = r.q]
       /\ last' = [op |-> "ur_emit_from_isr", ent |-> target, sig |-> sig,
                   err |-> r.err]
       /\ UNCHANGED << ents, disp, extVars >>

(* ------------------------------------------------------------------ *)
(* ur_core.c: lifecycle.  The calls below are made by the thread that *)
(* dispatches the entity, hence not in the middle of its dispatch.     *)
(* ------------------------------------------------------------------ *)
ur_start_res(E, q, entity_id) ==
    IF "ACTIVE" \in E.flags
    THEN [err |-> "UR_ERR_INVALID_STATE", ent |-> E, q |-> q, calls |-> << >>]
    ELSE LET s == ur_set_state_res([E EXCEPT !.flags = @ \cup {"ACTIVE"}],
                                   E.initial_state)
         IN IF s.err # "UR_OK"
            THEN [err |-> s.err, ent |-> E, q |-> q, calls |-> << >>]
            ELSE [err |-> "UR_OK", ent |-> s.ent,
                  q |-> ur_emit_res(q, ur_signal_create(SIG_SYS_INIT, entity_id)).q,
                  calls |-> s.calls]

ur_stop_res(E, q) ==
    IF "ACTIVE" \notin E.flags
    THEN [err |-> "UR_ERR_INVALID_STATE", ent |-> E, q |-> q, calls |-> << >>]
    ELSE [err |-> "UR_OK",
          ent |-> flow_reset([E EXCEPT !.current_state = 0,
                                       !.flags = @ \ {"ACTIVE"}]),
          q |-> << >>,
          calls |-> IF find_state(E.current_state).on_exit
                    THEN << <<"on_exit", E.current_state>> >> ELSE << >>]

ur_start(e) ==
    \E r \in {ur_start_res(ents[e], inbox[e], e)} :
       /\ disp[e].pc = "idle"
       /\ ents' = [ents EXCEPT ![e] = r.ent]
       /\ inbox' = [inbox EXCEPT ![e] = r.q]
       /\ last' = [op |-> "ur_start", ent |-> e, err |-> r.err, calls |-> r.calls]
       /\ UNCHANGED << disp, extVars >>

ur_stop(e) ==
    \E r \in {ur_stop_res(ents[e], inbox[e])} :
       /\ disp[e].pc = "idle"
       /\ ents' = [ents EXCEPT ![e] = r.ent]
       /\ inbox' = [inbox EXCEPT ![e] = r.q]
       /\ last' = [op |-> "ur_stop", ent |-> e, err |-> r.err, calls |-> r.calls]
       /\ UNCHANGED << disp, extVars >>

ur_suspend(e) ==
    /\ disp[e].pc = "idle"
    /\ ents' = [ents EXCEPT ![e].flags = @ \cup {"SUSPENDED"}]
    /\ last' = [op |-> "ur_suspend", ent |-> e, err |-> "UR_OK"]
    /\ UNCHANGED << inbox, disp, extVars >>

ur_resume(e) ==
    /\ disp[e].pc = "idle"
    /\ ents' = [ents EXCEPT ![e].flags = @ \ {"SUSPENDED"}]
    /\ last' = [op |-> "ur_resume", ent |-> e, err |-> "UR_OK"]
    /\ UNCHANGED << inbox, disp, extVars >>

ur_set_state(e, state_id) ==
    \E r \in {ur_set_state_res(ents[e], state_id)} :
       /\ disp[e].pc = "idle"
       /\ ents' = [ents EXCEPT ![e] = r.ent]
       /\ last' = [op |-> "ur_set_state", ent |-> e, arg |-> state_id,
                   err |-> r.err, calls |-> r.calls,
                   from |-> ents[e].current_state,
                   flow_before |-> FlowOf(ents[e]), flow_after |-> FlowOf(r.ent)]
       /\ UNCHANGED << inbox, disp, extVars >>

\* ur_bind_mixin: insert before the first mixin of greater priority
ur_bind_mixin_res(E, mixin) ==
    IF Len(E.mixins) >= UR_CFG_MAX_MIXINS_PER_ENTITY
    THEN [err |-> "UR_ERR_NO_MEMORY", ent |-> E]
    ELSE LET later == {i \in 1 .. Len(E.mixins) :
                         MixinTable[mixin].priority < MixinTable[E.mixins[i]].priority}
             pos == IF later = {} THEN Len(E.mixins) + 1
                    ELSE CHOOSE i \in later : \A j \in later : i <= j
         IN [err |-> "UR_OK",
             ent |-> [E EXCEPT !.mixins = SubSeq(@, 1, pos - 1) \o << mixin >>
                                          \o SubSeq(@, pos, Len(@))]]

\* the application binds a mixin once
ur_bind_mixin(e, mixin) ==
    \E r \in {ur_bind_mixin_res(ents[e], mixin)} :
       /\ disp[e].pc = "idle"
       /\ \A i \in 1 .. Len(ents[e].mixins) : ents[e].mixins[i] # mixin
       /\ ents' = [ents EXCEPT ![e] = r.ent]
       /\ last' = [op |-> "ur_bind_mixin", ent |-> e, err |-> r.err]
       /\ UNCHANGED << inbox, disp, extVars >>

(* ------------------------------------------------------------------ *)
(* ur_core.c: ur_dispatch, as two steps of the dispatching thread      *)
(* ------------------------------------------------------------------ *)
\* ur_dispatch without the check of the flags
ur_dispatch_receive_unchecked(e) ==
    /\ disp[e].pc = "idle"
    /\ IF inbox[e] = << >>
       THEN /\ last' = [op |-> "ur_dispatch", ent |-> e, err |-> "UR_ERR_TIMEOUT"]
            /\ UNCHANGED << inbox, disp >>
       ELSE /\ inbox' = [inbox EXCEPT ![e] = Tail(@)]
            /\ disp' = [disp EXCEPT ![e] = [pc |-> "process", sig |-> Head(inbox[e])]]
            /\ last' = [op |-> "ur_dispatch_receive", ent |-> e,
                        sig |-> Head(inbox[e])]
    /\ UNCHANGED << ents, extVars >>

\* entry checks and xQueueReceive (timeout 0)
ur_dispatch_receive(e) ==
    /\ disp[e].pc = "idle"
    /\ IF "ACTIVE" \notin ents[e].flags \/ "SUSPENDED" \in ents[e].flags
       THEN /\ last' = [op |-> "ur_dispatch", ent |-> e, err |-> "UR_ERR_INVALID_STATE"]
            /\ UNCHANGED << inbox, disp >>
       ELSE IF inbox[e] = << >>
       THEN /\ last' = [op |-> "ur_dispatch", ent |-> e, err |-> "UR_ERR_TIMEOUT"]
            /\ UNCHANGED << inbox, disp >>
       ELSE /\ inbox' = [inbox EXCEPT ![e] = Tail(@)]
            /\ disp' = [disp EXCEPT ![e] = [pc |-> "process", sig |-> Head(inbox[e])]]
            /\ last' = [op |-> "ur_dispatch_receive", ent |-> e,
                        sig |-> Head(inbox[e])]
    /\ UNCHANGED << ents, extVars >>

\* middleware chain, rule lookup, action, transition; returns UR_OK
ur_dispatch_process(e) ==
    /\ disp[e].pc = "process"
    /\ \E r \in ActionReturns, tallow \in BOOLEAN :
       \E sig \in {disp[e].sig} :
       \E d \in {ur_dispatch_process_res(ents[e], e, sig, g_acl, r, tallow, clock)} :
            /\ ents' = [ents EXCEPT ![e] = d.ent]
            /\ g_acl' = d.acl
            /\ last' = [op |-> "ur_dispatch", ent |-> e, err |-> "UR_OK",
                        sig |-> sig, mw |-> d.mw, looked_up |-> d.looked_up,
                        rule |-> d.rule, ret |-> d.ret,
                        next_state |-> d.next_state, calls |-> d.calls,
                        from |-> ents[e].current_state,
                        to |-> d.ent.current_state,
                        flow_before |-> FlowOf(ents[e]),
                        flow_after |-> FlowOf(d.ent),
                        denied |-> d.acl.stats.denied_count
                                     - g_acl.stats.denied_count]
    /\ disp' = [disp EXCEPT ![e] = [pc |-> "idle", sig |-> NoSig]]
    /\ UNCHANGED << inbox, g_power, g_bus, g_sup, g_entity_registry, envVars >>

(* ------------------------------------------------------------------ *)
(* Specification of the dispatcher: one entity, its application       *)
(* thread and a producer of user signals                               *)
(* ------------------------------------------------------------------ *)
CoreSigs == {SIG_TEMP_READING, SIG_FAN_ON, SIG_POWER_OFF, SIG_LOW_BATTERY, SIG_SYS_TICK}

Next ==
    \/ ur_start(1)
    \/ ur_stop(1)
    \/ ur_suspend(1)
    \/ ur_resume(1)
    \/ \E s \in SetStateArgs : ur_set_state(1, s)
    \/ \E m \in MixinNames : ur_bind_mixin(1, m)
    \/ \E s \in CoreSigs : ur_emit(1, ur_signal_create(s, 0))
    \/ ur_dispatch_receive(1)
    \/ ur_dispatch_process(1)

Spec == Init /\ [][Next]_vars

(* ------------------------------------------------------------------ *)
(* Properties of the dispatcher                                        *)
(* ------------------------------------------------------------------ *)
\* the last call was a dispatch that ran to the end
Dispatched == last.op = "ur_dispatch" /\ last.err = "UR_OK"

ExitCall(s) == IF find_state(s).on_exit THEN << <<"on_exit", s>> >> ELSE << >>
EntryCall(s) == IF find_state(s).on_entry THEN << <<"on_entry", s>> >> ELSE << >>
ActionCall(rule) ==
    IF rule.action # "none" THEN << <<"action", rule.signal_id>> >> ELSE << >>

\* C1 as stated: a dispatch that moves the entity from A to B calls
\* A.on_exit, then the rule's action (if it has one), then B.on_entry.
C1_ExitActionEntry ==
    (Dispatched /\ last.from # last.to)
        => last.calls = ExitCall(last.from) \o ActionCall(last.rule)
                          \o EntryCall(last.to)

\* C1 amended: a dispatch that moves the entity from A to B calls the
\* rule's action first (if it has one), then A.on_exit, then B.on_entry.
C1_ActionExitEntry ==
    (Dispatched /\ last.from # last.to)
        => last.calls = ActionCall(last.rule) \o ExitCall(last.from)
                          \o EntryCall(last.to)

\* a transition with all three calls has been dispatched
C1_Witness ==
    /\ Dispatched
    /\ last.from # last.to
    /\ Len(last.calls) = 3

\* the rule was found by bubble-up on an ancestor P of the current state C
\* and targets P itself
BubbledToOwner ==
    /\ Dispatched
    /\ last.rule.owner = "parent"
    /\ last.rule.owner_id # last.from
    /\ last.rule.next_state = last.rule.owner_id

\* C4 as stated: a rule found by bubble-up on ancestor P that targets P
\* runs its action and makes no transition: the state stays C and neither
\* on_exit nor on_entry runs.
C4_BubbleNoTransition ==
    BubbledToOwner
        => /\ last.to = last.from
           /\ last.calls = ActionCall(last.rule)

\* C4 amended: such a rule runs its action and, the action returning 0,
\* the entity leaves C for P: C.on_exit runs, the state becomes P and
\* P.on_entry runs.
C4_BubbleTransitionsToOwner ==
    (BubbledToOwner /\ last.ret = 0)
        => /\ last.to = last.rule.owner_id
           /\ last.calls = ActionCall(last.rule) \o ExitCall(last.from)
                             \o EntryCall(last.rule.owner_id)

C4_Witness ==
    /\ BubbledToOwner
    /\ last.ret = 0
    /\ last.from = STATE_CTRL_NORMAL
    /\ last.to = STATE_CTRL_STANDBY

\* ur_set_state was called with the id of the current state
SetStateSame ==
    /\ last.op = "ur_set_state"
    /\ last.arg = last.from

\* C5 as stated: ur_set_state with the id of the current state takes no
\* transition path: no on_exit, no on_entry, flow state left as it was.
C5_SetStateSameIsNoop ==
    SetStateSame => /\ last.calls = << >>
                    /\ last.flow_after = last.flow_before

\* C5 amended: only ur_dispatch compares the next state with the current
\* one (equal: no on_exit, no on_entry, state kept); ur_set_state called
\* with the id of the current state runs on_exit and on_entry of that
\* state and zeroes the flow state.
C5_OnlyDispatchComparesIds ==
    /\ SetStateSame
         => /\ last.err = "UR_OK"
            /\ last.calls = ExitCall(last.from) \o EntryCall(last.from)
            /\ last.flow_after = FlowZero
    /\ (Dispatched /\ last.rule.owner # "none" /\ last.next_state = last.from)
         => /\ last.to = last.from
            /\ last.calls = ActionCall(last.rule)

\* ur_set_state(current) ran on a state with both hooks and a live flow
C5_Witness ==
    /\ SetStateSame
    /\ Len(last.calls) = 2
    /\ last.flow_before # FlowZero

\* the matched rule has an action
ActionRan == Dispatched /\ last.rule.owner # "none" /\ last.rule.action # "none"

UR_POWER_ACTIVE == 0
UR_POWER_IDLE == 1
UR_POWER_LIGHT_SLEEP == 2
UR_POWER_DEEP_SLEEP == 3
UR_POWER_MODE_COUNT == 4
UR_CFG_POWER_MAX_MODES == 4

MAX_LOCKS == UR_CFG_MAX_ENTITIES * UR_CFG_POWER_MAX_MODES

\* lock acquisitions the application holds at a time
MaxLocks == 3

\* index of the lock entry of (entity, mode), 0 if none
find_lock(power, entity_id, mode) ==
    LET hits == {i \in 1 .. Len(power.locks) :
                    /\ power.locks[i].entity_id = entity_id
                    /\ power.locks[i].mode = mode}
    IN IF hits = {} THEN 0 ELSE CHOOSE i \in hits : \A j \in hits : i <= j

\* ur_power_init: memset, then initialized = true
ur_power_init_res == [initialized |-> TRUE, locks |-> << >>]

ur_power_lock_res(power, entity_id, mode) ==
    LET \* i: what find_lock returned
        at(p, i) ==
            IF i # 0
            THEN [err |-> "UR_OK",
                  power |-> [p EXCEPT !.locks[i].count = (@ + 1) % 256]]
            ELSE IF Len(p.locks) >= MAX_LOCKS
            THEN [err |-> "UR_ERR_NO_MEMORY", power |-> p]
            ELSE [err |-> "UR_OK",
                  power |-> [p EXCEPT !.locks = Append(@,
                                [entity_id |-> entity_id, mode |-> mode, count |-> 1])]]
        initialized(p) == at(p, find_lock(p, entity_id, mode))
    IN IF mode >= UR_POWER_MODE_COUNT
       THEN [err |-> "UR_ERR_INVALID_ARG", power |-> power]
       ELSE initialized(IF power.initialized THEN power ELSE ur_power_init_res)

\* an unlock without the count: the entry is removed at once
ur_power_unlock_res_no_count(power, entity_id, mode) ==
    LET at(i) ==
            IF i = 0 THEN [err |-> "UR_ERR_NOT_FOUND", power |-> power]
            ELSE [err |-> "UR_OK",
                  power |-> [power EXCEPT !.locks =
                                SubSeq(@, 1, i - 1) \o SubSeq(@, i + 1, Len(@))]]
    IN IF mode >= UR_POWER_MODE_COUNT
       THEN [err |-> "UR_ERR_INVALID_ARG", power |-> power]
       ELSE at(find_lock(power, entity_id, mode))

ur_power_unlock_res(power, entity_id, mode) ==
    LET \* i: what find_lock returned
        at(i) ==
            IF i = 0 THEN [err |-> "UR_ERR_NOT_FOUND", power |-> power]
            ELSE IF (power.locks[i].count + 255) % 256 = 0
            THEN [err |-> "UR_OK",
                  power |-> [power EXCEPT !.locks =
                                SubSeq(@, 1, i - 1) \o SubSeq(@, i + 1, Len(@))]]
            ELSE [err |-> "UR_OK",
                  power |-> [power EXCEPT !.locks[i].count = (@ + 255) % 256]]
    IN IF mode >= UR_POWER_MODE_COUNT
       THEN [err |-> "UR_ERR_INVALID_ARG", power |-> power]
       ELSE at(find_lock(power, entity_id, mode))

\* ur_power_unlock_all: every entry of the entity is removed, order kept
ur_power_unlock_all_res(power, entity_id) ==
    [power EXCEPT !.locks = SelectSeq(@, LAMBDA l : l.entity_id # entity_id)]

ur_power_is_locked(power, mode) ==
    \E i \in 1 .. Len(power.locks) : power.locks[i].mode = mode

\* ur_power_get_allowed_mode: the first mode, from DEEP_SLEEP down to IDLE,
\* that is not locked; ACTIVE when all three are locked
ur_power_get_allowed_mode_res(power) ==
    LET free == {m \in UR_POWER_IDLE .. UR_POWER_DEEP_SLEEP :
                    ~ur_power_is_locked(power, m)}
    IN IF free = {} THEN UR_POWER_ACTIVE
       ELSE CHOOSE m \in free : \A k \in free : k <= m

ur_power_lock(e, mode) ==
    \E r \in {ur_power_lock_res(g_power, e, mode)} :
       /\ g_power' = r.power
       /\ last' = [op |-> "ur_power_lock", ent |-> e, mode |-> mode, err |-> r.err]
       /\ UNCHANGED << ents, inbox, disp, g_bus, g_acl, g_sup, g_entity_registry, envVars >>

ur_power_unlock(e, mode) ==
    \E r \in {ur_power_unlock_res(g_power, e, mode)} :
       /\ g_power' = r.power
       /\ last' = [op |-> "ur_power_unlock", ent |-> e, mode |-> mode, err |-> r.err]
       /\ UNCHANGED << ents, inbox, disp, g_bus, g_acl, g_sup, g_entity_registry, envVars >>

ur_power_unlock_all(e) ==
    \E p \in {ur_power_unlock_all_res(g_power, e)} :
       /\ g_power' = p
       /\ last' = [op |-> "ur_power_unlock_all", ent |-> e,
                   count |-> Len(g_power.locks) - Len(p.locks)]
       /\ UNCHANGED << ents, inbox, disp, g_bus, g_acl, g_sup, g_entity_registry, envVars >>

ur_power_get_allowed_mode ==
    /\ last' = [op |-> "ur_power_get_allowed_mode",
                mode |-> ur_power_get_allowed_mode_res(g_power)]
    /\ UNCHANGED << ents, inbox, disp, extVars >>

(* ------------------------------------------------------------------ *)
(* Specification of the power manager: two entities that are started  *)
(* and stopped, take and release sleep locks, and the idle loop that   *)
(* asks for the allowed mode                                           *)
(* ------------------------------------------------------------------ *)
\* modes the application passes: the sleep modes and an invalid one
PowerLockArgs == UR_POWER_IDLE .. UR_POWER_MODE_COUNT

RECURSIVE locks_held(_, _)
locks_held(locks, i) ==
    IF i > Len(locks) THEN 0 ELSE locks[i].count + locks_held(locks, i + 1)

NextPower ==
    \/ \E e \in {1, 2} : ur_start(e)
    \/ \E e \in {1, 2} : ur_stop(e)
    \/ /\ locks_held(g_power.locks, 1) < MaxLocks
       /\ \E e \in {1, 2}, m \in PowerLockArgs : ur_power_lock(e, m)
    \/ \E e \in {1, 2}, m \in PowerLockArgs : ur_power_unlock(e, m)
    \/ \E e \in {1, 2} : ur_power_unlock_all(e)
    \/ ur_power_get_allowed_mode

SpecPower == Init /\ [][NextPower]_vars

(* ------------------------------------------------------------------ *)
(* Properties of the power manager                                     *)
(* ------------------------------------------------------------------ *)
LockedModes == {g_power.locks[i].mode : i \in 1 .. Len(g_power.locks)}

\* C2: while a lock on a mode M is held, the allowed mode returned by
\* ur_power_get_allowed_mode is shallower than M (never M, never a deeper
\* mode); with LIGHT_SLEEP the only locked mode it is IDLE.
C2_AllowedBelowEveryLock ==
    last.op = "ur_power_get_allowed_mode"
        => /\ \A m \in LockedModes : last.mode < m
           /\ LockedModes = {UR_POWER_LIGHT_SLEEP} => last.mode = UR_POWER_IDLE

\* C7: after ur_stop(E) returned UR_OK the lock list has no entry of E.
C7_StopReleasesLocks ==
    (last.op = "ur_stop" /\ last.err = "UR_OK")
        => \A i \in 1 .. Len(g_power.locks) :
              g_power.locks[i].entity_id # last.ent

(* ------------------------------------------------------------------ *)
(* ur_core.c: entity registry                                         *)
(* ------------------------------------------------------------------ *)
\* a lookup that resolves every id, registered or not
ur_get_entity_unchecked(registry, id) == id

\* ur_get_entity: the id when it is registered, 0 (NULL) otherwise
ur_get_entity(registry, id) ==
    IF id = 0 \/ id > UR_CFG_MAX_ENTITIES THEN 0
    ELSE IF id \in registry THEN id ELSE 0

ur_register_entity(e) ==
    /\ g_entity_registry' = g_entity_registry \cup {e}
    /\ last' = [op |-> "ur_register_entity", ent |-> e,
                err |-> IF e = 0 \/ e > UR_CFG_MAX_ENTITIES THEN "UR_ERR_INVALID_ARG"
                        ELSE IF e \in g_entity_registry THEN "UR_ERR_ALREADY_EXISTS"
                        ELSE "UR_OK"]
    /\ UNCHANGED << ents, inbox, disp, g_power, g_bus, g_acl, g_sup, envVars >>

(* ------------------------------------------------------------------ *)
(* ur_bus.c: topics, subscriptions, publish                            *)
(* ------------------------------------------------------------------ *)
UR_CFG_BUS_MAX_TOPICS == 64
UR_CFG_BUS_MAX_SUBSCRIBERS == 8

\* publishes made in a run
MaxPublish == 2

\* index of the topic, 0 if none
find_topic(bus, topic_id) ==
    LET hits == {i \in 1 .. Len(bus.topics) : bus.topics[i].topic_id = topic_id}
    IN IF hits = {} THEN 0 ELSE CHOOSE i \in hits : \A j \in hits : i <= j

\* the bus with the topic in its table (unchanged when the table is full)
find_or_create_topic(bus, topic_id) ==
    IF find_topic(bus, topic_id) # 0 THEN bus
    ELSE IF Len(bus.topics) >= UR_CFG_BUS_MAX_TOPICS THEN bus
    ELSE [bus EXCEPT !.topics = Append(@, [topic_id |-> topic_id,
                                           subscribers |-> << >>])]

is_subscribed_to_topic(topic, entity_id) ==
    \E i \in 1 .. Len(topic.subscribers) : topic.subscribers[i] = entity_id

ur_bus_init_res == [initialized |-> TRUE, topics |-> << >>, stats |-> BusStatsZero]

ur_subscribe_res(bus, entity_id, topic_id) ==
    LET \* t: the index of the topic, 0 when the table was full
        at(b, t) ==
            IF t = 0 THEN [err |-> "UR_ERR_NO_MEMORY", bus |-> b]
            ELSE IF is_subscribed_to_topic(b.topics[t], entity_id)
            THEN [err |-> "UR_OK", bus |-> b]
            ELSE IF Len(b.topics[t].subscribers) >= UR_CFG_BUS_MAX_SUBSCRIBERS
            THEN [err |-> "UR_ERR_NO_MEMORY", bus |-> b]
            ELSE [err |-> "UR_OK",
                  bus |-> [b EXCEPT !.topics[t].subscribers = Append(@, entity_id)]]
        created(b) == at(b, find_topic(b, topic_id))
        initialized(b) == created(find_or_create_topic(b, topic_id))
    IN initialized(IF bus.initialized THEN bus ELSE ur_bus_init_res)

ur_unsubscribe_res(bus, entity_id, topic_id) ==
    LET \* t: what find_topic returned
        at(t) ==
            IF t = 0 THEN [err |-> "UR_ERR_NOT_FOUND", bus |-> bus]
            ELSE IF is_subscribed_to_topic(bus.topics[t], entity_id)
            THEN [err |-> "UR_OK",
                  bus |-> [bus EXCEPT !.topics[t].subscribers =
                              SelectSeq(@, LAMBDA id : id # entity_id)]]
            ELSE [err |-> "UR_ERR_NOT_FOUND", bus |-> bus]
    IN at(find_topic(bus, topic_id))

\* ur_unsubscribe_all: the entity leaves every topic (topics are kept)
ur_unsubscribe_all_res(bus, entity_id) ==
    [bus EXCEPT !.topics =
        [t \in 1 .. Len(@) |->
            [@[t] EXCEPT !.subscribers = SelectSeq(@, LAMBDA id : id # entity_id)]]]

\* the fan-out loop of ur_publish from subscriber i on
RECURSIVE publish_to(_, _, _, _, _, _, _)
publish_to(subs, i, sig, registry, boxes, stats, delivered) ==
    LET \* r: what ur_emit returned for subscriber i
        emitted(r) ==
            IF r.err = "UR_OK"
            THEN publish_to(subs, i + 1, sig, registry,
                            [boxes EXCEPT ![subs[i]] = r.q],
                            bump(stats, "delivery_count"), delivered + 1)
            ELSE publish_to(subs, i + 1, sig, registry, boxes,
                            bump(stats, "drop_count"), delivered)
    IN IF i > Len(subs)
       THEN [inbox |-> boxes, stats |-> stats, delivered |-> delivered]
       ELSE IF ur_get_entity(registry, subs[i]) = 0
       THEN publish_to(subs, i + 1, sig, registry, boxes, stats, delivered)
       ELSE emitted(ur_emit_res(boxes[subs[i]], sig))

\* [inbox, stats, delivered] of a publish
ur_publish_res(bus, registry, boxes, sig) ==
    LET \* t: what find_topic returned
        at(b, t) ==
            IF t = 0 \/ (t # 0 /\ b.topics[t].subscribers = << >>)
            THEN [inbox |-> boxes, stats |-> bump(b.stats, "no_subscriber_count"),
                  delivered |-> 0]
            ELSE publish_to(b.topics[t].subscribers, 1, sig, registry, boxes,
                            b.stats, 0)
        counted(b) == at(b, find_topic(b, sig.id))
    IN counted([(IF bus.initialized THEN bus ELSE ur_bus_init_res)
                   EXCEPT !.stats = bump(@, "publish_count")])

ur_subscribe(e, topic_id) ==
    \E r \in {ur_subscribe_res(g_bus, e, topic_id)} :
       /\ g_bus' = r.bus
       /\ last' = [op |-> "ur_subscribe", ent |-> e, topic |-> topic_id, err |-> r.err]
       /\ UNCHANGED << ents, inbox, disp, g_power, g_acl, g_sup, g_entity_registry, envVars >>

ur_unsubscribe(e, topic_id) ==
    \E r \in {ur_unsubscribe_res(g_bus, e, topic_id)} :
       /\ g_bus' = r.bus
       /\ last' = [op |-> "ur_unsubscribe", ent |-> e, topic |-> topic_id, err |-> r.err]
       /\ UNCHANGED << ents, inbox, disp, g_power, g_acl, g_sup, g_entity_registry, envVars >>

ur_unsubscribe_all(e) ==
    \E b \in {ur_unsubscribe_all_res(g_bus, e)} :
       /\ g_bus' = b
       /\ last' = [op |-> "ur_unsubscribe_all", ent |-> e]
       /\ UNCHANGED << ents, inbox, disp, g_power, g_acl, g_sup, g_entity_registry, envVars >>

ur_publish(sig) ==
    \E r \in {ur_publish_res(g_bus, g_entity_registry, inbox, sig)} :
       /\ inbox' = r.inbox
       /\ g_bus' = [initialized |-> TRUE,
                    topics |-> IF g_bus.initialized THEN g_bus.topics ELSE << >>,
                    stats |-> r.stats]
       /\ last' = [op |-> "ur_publish", sig |-> sig, delivered |-> r.delivered,
                   before |-> inbox,
                   drops |-> r.stats.drop_count - g_bus.stats.drop_count]
       /\ UNCHANGED << ents, disp, g_power, g_acl, g_sup, g_entity_registry, envVars >>

(* ------------------------------------------------------------------ *)
(* Specification of the bus: two entities that are registered,        *)
(* started and stopped, subscribe and unsubscribe, and a publisher     *)
(* ------------------------------------------------------------------ *)
\* the topic the entities subscribe to; SIG_FAN_ON has no subscriber
BusTopics == {SIG_TEMP_READING}
BusPublishIds == {SIG_TEMP_READING, SIG_FAN_ON}

NextBus ==
    \/ \E e \in {1, 2} : e \notin g_entity_registry /\ ur_register_entity(e)
    \/ \E e \in {1, 2} : ur_start(e)
    \/ \E e \in {1, 2} : ur_stop(e)
    \/ \E e \in {1, 2}, t \in BusTopics : ur_subscribe(e, t)
    \/ \E e \in {1, 2}, t \in BusTopics : ur_unsubscribe(e, t)
    \/ \E e \in {1, 2} : ur_unsubscribe_all(e)
    \/ /\ g_bus.stats.publish_count < MaxPublish
       /\ \E t \in BusPublishIds : ur_publish(ur_signal_create(t, 0))

SpecBus == Init /\ [][NextBus]_vars

(* ------------------------------------------------------------------ *)
(* Properties of the bus                                               *)
(* ------------------------------------------------------------------ *)
SubscribedSomewhere(bus, e) ==
    \E t \in 1 .. Len(bus.topics) : is_subscribed_to_topic(bus.topics[t], e)

\* C8: once ur_stop(E) has returned UR_OK, E is in the subscriber list of
\* no topic, and a publish that follows puts nothing into E's inbox.
C8_StopLeavesBus ==
    [][ /\ (last'.op = "ur_stop" /\ last'.err = "UR_OK")
            => ~SubscribedSomewhere(g_bus', last'.ent)
        /\ (last.op = "ur_stop" /\ last.err = "UR_OK" /\ last'.op = "ur_publish")
            => inbox'[last.ent] = inbox[last.ent] ]_vars

\* the subscribers of the topic
TopicSubscribers(bus, topic_id) ==
    IF find_topic(bus, topic_id) = 0 THEN {}
    ELSE {bus.topics[find_topic(bus, topic_id)].subscribers[i] :
             i \in 1 .. Len(bus.topics[find_topic(bus, topic_id)].subscribers)}

\* the entities whose inbox had a free slot before the last publish
HadFreeSlot == {e \in Ents : Len(last.before[e]) < InboxSize}

RECURSIVE sort_insert(_, _)
sort_insert(sorted, temp) ==
    IF sorted # << >> /\ sorted[Len(sorted)].priority > temp.priority
    THEN Append(sort_insert(SubSeq(sorted, 1, Len(sorted) - 1), temp),
                sorted[Len(sorted)])
    ELSE Append(sorted, temp)

\* sort_middleware: insertion sort by priority, from element i on
RECURSIVE sort_middleware(_, _)
sort_middleware(mw, i) ==
    IF i > Len(mw) THEN mw
    ELSE sort_middleware(sort_insert(SubSeq(mw, 1, i - 1), mw[i])
                            \o SubSeq(mw, i + 1, Len(mw)), i + 1)

ur_register_middleware_res(E, fn, priority) ==
    IF Len(E.middleware) >= UR_CFG_MAX_MIDDLEWARE
    THEN [err |-> "UR_ERR_NO_MEMORY", ent |-> E]
    ELSE [err |-> "UR_OK",
          ent |-> [E EXCEPT !.middleware = sort_middleware(Append(@,
                      [fn |-> fn, priority |-> priority, enabled |-> TRUE]), 2)]]

\* the first middleware with the function gets the enabled bit
ur_set_middleware_enabled_res(E, fn, enabled) ==
    LET hits == {i \in 1 .. Len(E.middleware) : E.middleware[i].fn = fn}
    IN IF hits = {} THEN [err |-> "UR_ERR_NOT_FOUND", ent |-> E]
       ELSE [err |-> "UR_OK",
             ent |-> [E EXCEPT !.middleware[CHOOSE i \in hits :
                                   \A j \in hits : i <= j].enabled = enabled]]

ur_set_middleware_enabled(e, fn, enabled) ==
    \E r \in {ur_set_middleware_enabled_res(ents[e], fn, enabled)} :
       /\ disp[e].pc = "idle"
       /\ ents' = [ents EXCEPT ![e] = r.ent]
       /\ last' = [op |-> "ur_set_middleware_enabled", ent |-> e, err |-> r.err]
       /\ UNCHANGED << inbox, disp, extVars >>

(* ------------------------------------------------------------------ *)
(* ur_acl.c: rule management                                           *)
(* ------------------------------------------------------------------ *)
UR_CFG_ACL_MAX_RULES == 32

\* rules in an entity's table, and signals filtered in a run
MaxAclRules == 2
MaxAclChecks == 2

ur_acl_init_res == [initialized |-> TRUE, entries |-> << >>, stats |-> AclStatsZero]

find_or_create_acl_entry(acl, entity_id) ==
    IF find_acl_entry(acl, entity_id) # 0 THEN acl
    ELSE IF Len(acl.entries) >= UR_CFG_MAX_ENTITIES THEN acl
    ELSE [acl EXCEPT !.entries = Append(@,
             [entity_id |-> entity_id, rules |-> << >>,
              default_policy |-> "UR_ACL_DEFAULT_ALLOW", transform_fn |-> FALSE])]

\* "Insert in priority order": before the first rule of greater priority
acl_insert_rule(rules, rule) ==
    LET later == {i \in 1 .. Len(rules) : rule.priority < rules[i].priority}
        pos == IF later = {} THEN Len(rules) + 1
               ELSE CHOOSE i \in later : \A j \in later : i <= j
    IN SubSeq(rules, 1, pos - 1) \o << rule >> \o SubSeq(rules, pos, Len(rules))

ur_acl_add_rule_res(acl, entity_id, rule) ==
    LET \* ei: the index of the entry, 0 when the table was full
        at(a, ei) ==
            IF ei = 0 THEN [err |-> "UR_ERR_NO_MEMORY", acl |-> a]
            ELSE IF Len(a.entries[ei].rules) >= UR_CFG_ACL_MAX_RULES
            THEN [err |-> "UR_ERR_NO_MEMORY", acl |-> a]
            ELSE [err |-> "UR_OK",
                  acl |-> [a EXCEPT !.entries[ei].rules = acl_insert_rule(@, rule)]]
        created(a) == at(a, find_acl_entry(a, entity_id))
    IN created(find_or_create_acl_entry(
                  IF acl.initialized THEN acl ELSE ur_acl_init_res, entity_id))

ur_acl_add_rule(e, rule) ==
    \E r \in {ur_acl_add_rule_res(g_acl, e, rule)} :
       /\ g_acl' = r.acl
       /\ last' = [op |-> "ur_acl_add_rule", ent |-> e, rule |-> rule, err |-> r.err]
       /\ UNCHANGED << ents, inbox, disp, g_power, g_bus, g_sup, g_entity_registry, envVars >>

\* ur_acl_enable_middleware: the ACL middleware at priority 0
ur_acl_enable_middleware(e) ==
    \E r \in {ur_register_middleware_res(ents[e], "ur_acl_middleware", 0)} :
       /\ disp[e].pc = "idle"
       /\ ents' = [ents EXCEPT ![e] = r.ent]
       /\ last' = [op |-> "ur_acl_enable_middleware", ent |-> e, err |-> r.err]
       /\ UNCHANGED << inbox, disp, extVars >>

(* ------------------------------------------------------------------ *)
(* Specification of the ACL: one entity with an ACL table and the ACL *)
(* middleware, producers inside and outside the system                 *)
(* ------------------------------------------------------------------ *)
\* signals sent to the entity: from outside (src 0) and from entity 2
AclSigs == { ur_signal_create(SIG_POWER_OFF, 0),
             ur_signal_create(SIG_POWER_OFF, 2),
             ur_signal_create(SIG_TEMP_READING, 0) }

\* rules the application adds
AclRuleArgs ==
    { [src_id |-> UR_ACL_SRC_EXTERNAL, signal_id |-> SIG_POWER_OFF,
       action |-> "UR_ACL_DENY", priority |-> 10],
      [src_id |-> UR_ACL_SRC_ANY, signal_id |-> UR_ACL_SIG_USER,
       action |-> "UR_ACL_ALLOW", priority |-> 0],
      [src_id |-> UR_ACL_SRC_ANY, signal_id |-> SIG_POWER_OFF,
       action |-> "UR_ACL_LOG", priority |-> 20] }

AclInstalled(E) ==
    \E i \in 1 .. Len(E.middleware) : E.middleware[i].fn = "ur_acl_middleware"

AclEnabled(E) ==
    \E i \in 1 .. Len(E.middleware) :
        E.middleware[i].fn = "ur_acl_middleware" /\ E.middleware[i].enabled

AclRuleCount(acl, e) ==
    IF find_acl_entry(acl, e) = 0 THEN 0
    ELSE Len(acl.entries[find_acl_entry(acl, e)].rules)

\* signals filtered so far: each one counts as allowed or as denied
AclFiltered(acl) == acl.stats.allowed_count + acl.stats.denied_count

\* a producer sends when the inbox is empty; the application installs the
\* ACL middleware once
NextAcl ==
    \/ ur_start(1)
    \/ \E s \in AclSigs : inbox[1] = << >> /\ ur_emit(1, s)
    \/ AclFiltered(g_acl) < MaxAclChecks /\ ur_dispatch_receive(1)
    \/ ur_dispatch_process(1)
    \/ \E r \in AclRuleArgs :
          AclRuleCount(g_acl, 1) < MaxAclRules /\ ur_acl_add_rule(1, r)
    \/ ~AclInstalled(ents[1]) /\ ur_acl_enable_middleware(1)
    \/ \E b \in BOOLEAN : ur_set_middleware_enabled(1, "ur_acl_middleware", b)

SpecAcl == Init /\ [][NextAcl]_vars

(* ------------------------------------------------------------------ *)
(* Properties of the ACL                                               *)
(* ------------------------------------------------------------------ *)
\* the entity's table has a DENY rule whose predicates match the signal
HasMatchingDeny(acl, e, sig) ==
    \E ei \in 1 .. Len(acl.entries) :
        /\ acl.entries[ei].entity_id = e
        /\ \E ri \in 1 .. Len(acl.entries[ei].rules) :
              /\ acl.entries[ei].rules[ri].action = "UR_ACL_DENY"
              /\ rule_matches(acl.entries[ei].rules[ri], sig)

\* the first rule of the entity's table, in its priority order, whose
\* predicates match the signal is a DENY rule
FirstMatchIsDeny(acl, e, sig) ==
    \E ei \in 1 .. Len(acl.entries) :
        /\ acl.entries[ei].entity_id = e
        /\ \E ri \in 1 .. Len(acl.entries[ei].rules) :
              /\ acl.entries[ei].rules[ri].action = "UR_ACL_DENY"
              /\ rule_matches(acl.entries[ei].rules[ri], sig)
              /\ \A k \in 1 .. ri - 1 :
                    ~rule_matches(acl.entries[ei].rules[k], sig)

\* the dispatched signal was blocked by the ACL: the filter returned false
\* (the middleware FILTERED, one more denied signal), no rule was looked up
\* and no action ran
BlockedByAcl ==
    /\ last.mw = "UR_MW_FILTERED"
    /\ last.denied = 1
    /\ ~last.looked_up
    /\ last.calls = << >>
    /\ last.to = last.from

\* C3 as stated: with the ACL middleware installed, a signal that matches
\* any DENY rule of the entity's table is blocked.
C3_AnyDenyRuleBlocks ==
    (Dispatched /\ AclEnabled(ents[last.ent])
        /\ HasMatchingDeny(g_acl, last.ent, last.sig))
        => BlockedByAcl

\* C3 amended: with the ACL middleware installed and enabled, a signal
\* whose first matching rule, in priority order, is a DENY rule is blocked.
C3_FirstMatchDenyBlocks ==
    (Dispatched /\ AclEnabled(ents[last.ent])
        /\ FirstMatchIsDeny(g_acl, last.ent, last.sig))
        => BlockedByAcl

\* a signal was blocked by a DENY rule that is followed, in the table, by
\* a rule that matches it too
C3_Witness ==
    /\ Dispatched
    /\ AclEnabled(ents[last.ent])
    /\ FirstMatchIsDeny(g_acl, last.ent, last.sig)
    /\ last.mw = "UR_MW_FILTERED"
    /\ \E ei \in 1 .. Len(g_acl.entries) :
          /\ g_acl.entries[ei].entity_id = last.ent
          /\ Len(g_acl.entries[ei].rules) = 2
          /\ g_acl.entries[ei].rules[2].action # "UR_ACL_DENY"
          /\ rule_matches(g_acl.entries[ei].rules[2], last.sig)

(* ------------------------------------------------------------------ *)
(* ur_supervisor.c: supervision and delayed restart.  g_sup holds the  *)
(* supervisor table, g_pending_restart_entity (pending, 0 for NULL)   *)
(* and whether the one-shot restart timer is running.  Its field       *)
(* awaiting is history: the children whose report scheduled a restart  *)
(* that has not been carried out yet.                                  *)
(* ------------------------------------------------------------------ *)
MAX_SUPERVISORS == 4
UR_CFG_SUPERVISOR_MAX_CHILDREN == 8

\* max_restarts the application gives its supervisor
MaxRestarts == 1

\* index of the supervisor block of the entity, 0 if none
find_supervisor(sup, entity_id) ==
    LET hits == {i \in 1 .. Len(sup.supervisors) :
                    sup.supervisors[i].supervisor = entity_id}
    IN IF hits = {} THEN 0 ELSE CHOOSE i \in hits : \A j \in hits : i <= j

\* index of the supervisor block that lists the child, 0 if none
find_supervisor_of_child(sup, child) ==
    LET hits == {i \in 1 .. Len(sup.supervisors) :
                    \E j \in 1 .. Len(sup.supervisors[i].children) :
                        sup.supervisors[i].children[j] = child}
    IN IF hits = {} THEN 0 ELSE CHOOSE i \in hits : \A j \in hits : i <= j

\* index of the child in the block, 0 (for -1) if it is not there
find_child_index(S, child) ==
    LET hits == {j \in 1 .. Len(S.children) : S.children[j] = child}
    IN IF hits = {} THEN 0 ELSE CHOOSE i \in hits : \A j \in hits : i <= j

ur_supervisor_create(e, max_restarts) ==
    /\ disp[e].pc = "idle"
    /\ IF Len(g_sup.supervisors) >= MAX_SUPERVISORS
       THEN /\ last' = [op |-> "ur_supervisor_create", ent |-> e,
                        err |-> "UR_ERR_NO_MEMORY"]
            /\ UNCHANGED << ents, g_sup >>
       ELSE IF find_supervisor(g_sup, e) # 0
       THEN /\ last' = [op |-> "ur_supervisor_create", ent |-> e,
                        err |-> "UR_ERR_ALREADY_EXISTS"]
            /\ UNCHANGED << ents, g_sup >>
       ELSE /\ g_sup' = [g_sup EXCEPT !.supervisors = Append(@,
                            [supervisor |-> e, children |-> << >>,
                             restart_counts |-> << >>,
                             max_restarts |-> max_restarts])]
            /\ ents' = [ents EXCEPT ![e].flags = @ \cup {"SUPERVISOR"}]
            /\ last' = [op |-> "ur_supervisor_create", ent |-> e, err |-> "UR_OK"]
    /\ UNCHANGED << inbox, disp, g_power, g_bus, g_acl, g_entity_registry, envVars >>

ur_supervisor_add_child_err(sup, e, child) ==
    IF find_supervisor(sup, e) = 0 THEN "UR_ERR_NOT_FOUND"
    ELSE IF Len(sup.supervisors[find_supervisor(sup, e)].children)
               >= UR_CFG_SUPERVISOR_MAX_CHILDREN
    THEN "UR_ERR_NO_MEMORY"
    ELSE IF find_supervisor_of_child(sup, child) # 0 THEN "UR_ERR_ALREADY_EXISTS"
    ELSE "UR_OK"

ur_supervisor_add_child(e, child) ==
    \E err \in {ur_supervisor_add_child_err(g_sup, e, child)} :
    \E si \in {find_supervisor(g_sup, e)} :
       /\ disp[child].pc = "idle"
       /\ IF err # "UR_OK" THEN UNCHANGED << ents, g_sup >>
          ELSE /\ g_sup' = [g_sup EXCEPT
                              !.supervisors[si].children = Append(@, child),
                              !.supervisors[si].restart_counts = Append(@, 0)]
               /\ ents' = [ents EXCEPT ![child].flags = @ \cup {"SUPERVISED"},
                                       ![child].supervisor_id = e]
       /\ last' = [op |-> "ur_supervisor_add_child", ent |-> e, child |-> child,
                   err |-> err]
       /\ UNCHANGED << inbox, disp, g_power, g_bus, g_acl, g_entity_registry, envVars >>

ur_get_restart_count(sup, child) ==
    IF find_supervisor_of_child(sup, child) = 0 THEN 0
    ELSE sup.supervisors[find_supervisor_of_child(sup, child)].restart_counts[
            find_child_index(sup.supervisors[find_supervisor_of_child(sup, child)],
                             child)]

\* [err, sup, inbox] of ur_report_dying(child)
ur_report_dying_res(sup, boxes, child) ==
    LET \* s: the table after restart_counts[idx]++
        counted(si, idx, s, q) ==
            IF s.supervisors[si].restart_counts[idx] > s.supervisors[si].max_restarts
            THEN [err |-> "UR_ERR_INVALID_STATE", sup |-> s, inbox |-> q]
            ELSE \* "Schedule restart"
                 [err |-> "UR_OK",
                  sup |-> [s EXCEPT !.pending = child, !.timer_active = TRUE,
                                    !.awaiting = @ \cup {child}],
                  inbox |-> q]
        indexed(si, idx, q) ==
            IF idx = 0 THEN [err |-> "UR_OK", sup |-> sup, inbox |-> q]
            ELSE counted(si, idx,
                         [sup EXCEPT !.supervisors[si].restart_counts[idx] =
                                        (@ + 1) % 256], q)
        \* q: the inboxes after the SIG_SYS_DYING emission to the supervisor
        emitted(si, q) ==
            indexed(si, find_child_index(sup.supervisors[si], child), q)
        \* si: what find_supervisor_of_child returned
        at(si) ==
            IF si = 0 THEN [err |-> "UR_OK", sup |-> sup, inbox |-> boxes]
            ELSE emitted(si, [boxes EXCEPT ![sup.supervisors[si].supervisor] =
                                 ur_emit_res(@, ur_signal_create(SIG_SYS_DYING, child)).q])
    IN at(find_supervisor_of_child(sup, child))

ur_report_dying(child) ==
    \E r \in {ur_report_dying_res(g_sup, inbox, child)} :
       /\ g_sup' = r.sup
       /\ inbox' = r.inbox
       /\ last' = [op |-> "ur_report_dying", ent |-> child, err |-> r.err]
       /\ UNCHANGED << ents, disp, g_power, g_bus, g_acl, g_entity_registry, envVars >>

\* the body of restart_timer_callback for the pending entity:
\* ur_stop, ur_start, then SIG_SYS_REVIVE from source 0
restart_entity_res(E, q, entity_id) ==
    LET started(s) ==
            [ent |-> s.ent,
             q |-> ur_emit_res(s.q, ur_signal_create(SIG_SYS_REVIVE, 0)).q]
        stopped(s) == started(ur_start_res(s.ent, s.q, entity_id))
    IN stopped(ur_stop_res(E, q))

\* runs on the timer service task when the one-shot timer expires,
\* whatever the tasks that dispatch the entities are doing
restart_timer_callback ==
    /\ g_sup.timer_active
    /\ IF g_sup.pending # 0
       THEN \E c \in {g_sup.pending} :
            \E r \in {restart_entity_res(ents[c], inbox[c], c)} :
               /\ ents' = [ents EXCEPT ![c] = r.ent]
               /\ inbox' = [inbox EXCEPT ![c] = r.q]
               /\ g_sup' = [g_sup EXCEPT !.pending = 0, !.timer_active = FALSE,
                                         !.awaiting = @ \ {c}]
               /\ last' = [op |-> "restart_timer_callback", ent |-> c,
                           before |-> ents[c], after |-> r.ent]
       ELSE /\ g_sup' = [g_sup EXCEPT !.timer_active = FALSE]
            /\ last' = [op |-> "restart_timer_callback", ent |-> 0]
            /\ UNCHANGED << ents, inbox >>
    /\ UNCHANGED << disp, g_power, g_bus, g_acl, g_entity_registry, envVars >>

(* ------------------------------------------------------------------ *)
(* Specification of supervision: supervisor 1 with children 2 and 3,   *)
(* the tasks that dispatch the children, and the timer service task    *)
(* ------------------------------------------------------------------ *)
SupChildren == {2, 3}

\* a child stops reporting once the supervisor gave up on it
NextSup ==
    \/ ur_supervisor_create(1, MaxRestarts)
    \/ \E c \in SupChildren : ur_supervisor_add_child(1, c)
    \/ \E c \in SupChildren : ur_start(c)
    \/ \E c \in SupChildren :
          /\ ur_get_restart_count(g_sup, c) <= MaxRestarts
          /\ ur_report_dying(c)
    \/ restart_timer_callback
    \/ \E c \in SupChildren : ur_dispatch_receive(c)
    \/ \E c \in SupChildren : ur_dispatch_process(c)

SpecSup == Init /\ [][NextSup]_vars

\* the timer service fires a running timer
FairSpecSup == SpecSup /\ WF_vars(restart_timer_callback)

\* C9: every report of a child under the max-restarts cap leads to the
\* restart of that child (stop, start, SIG_SYS_REVIVE), whatever the other
\* children report before the timer fires.
C9_EveryReportRestarts ==
    \A c \in SupChildren : (c \in g_sup.awaiting) ~> (c \notin g_sup.awaiting)

\* C10: the restart timer does not modify an entity's state, flags or
\* flow state while a dispatch of that entity is under way.
C10_NoRestartDuringDispatch ==
    (last.op = "restart_timer_callback" /\ last.ent # 0)
        => disp[last.ent].pc = "idle"

(* ------------------------------------------------------------------ *)
(* ur_param.c: persistent parameters.  A string is the sequence of its *)
(* characters before the NUL, a blob the sequence of its def->size     *)
(* bytes.  nvs maps the ids of the saved parameters to the saved       *)
(* values.  g_param.at_begin is history: the RAM values at the         *)
(* batch_begin that switched batch mode on.                            *)
(* ------------------------------------------------------------------ *)
SIG_PARAM_CHANGED == 32
SIG_PARAM_READY == 33

\* the parameter table of the application
ParamDefs ==
    << [id |-> 1, type |-> "UR_PARAM_TYPE_U8", flags |-> {"PERSIST", "NOTIFY"},
        size |-> 0, default_val |-> 50],
       [id |-> 2, type |-> "UR_PARAM_TYPE_STR", flags |-> {"NOTIFY"},
        size |-> 2, default_val |-> << >>],
       [id |-> 3, type |-> "UR_PARAM_TYPE_BLOB", flags |-> {"NOTIFY"},
        size |-> 2, default_val |-> << 0, 0 >>] >>

\* the calls of the setters the application makes: [id, type, value]
ParamSetArgs ==
    { [id |-> 1, type |-> "UR_PARAM_TYPE_U8", value |-> 50],
      [id |-> 1, type |-> "UR_PARAM_TYPE_U8", value |-> 51],
      [id |-> 2, type |-> "UR_PARAM_TYPE_STR", value |-> << "a" >>],
      [id |-> 2, type |-> "UR_PARAM_TYPE_STR", value |-> << "a", "b" >>],
      [id |-> 3, type |-> "UR_PARAM_TYPE_BLOB", value |-> << 7 >>],
      [id |-> 3, type |-> "UR_PARAM_TYPE_U8", value |-> 1] }

\* notifications the model follows
MaxNotify == 3

\* index of the entry of the parameter, 0 if none
find_entry(param, id) ==
    LET hits == {i \in 1 .. Len(param.entries) : param.entries[i].def.id = id}
    IN IF hits = {} THEN 0 ELSE CHOOSE i \in hits : \A j \in hits : i <= j

\* the first n characters of a string (strncpy, strncmp)
str_prefix(str, n) == SubSeq(str, 1, IF Len(str) < n THEN Len(str) ELSE n)

\* memcpy of the first UR_MIN(len, size) bytes over the blob
blob_copy(blob, data, size) ==
    LET copy_len == IF Len(data) < size THEN Len(data) ELSE size
    IN SubSeq(data, 1, copy_len) \o SubSeq(blob, copy_len + 1, Len(blob))

\* save_entry(&entries[i]); save_ok: whether storage->save returns UR_OK
save_entry(param, store, i, save_ok) ==
    IF ~param.storage THEN [param |-> param, nvs |-> store]
    ELSE IF "PERSIST" \notin param.entries[i].def.flags
    THEN [param |-> param, nvs |-> store]
    ELSE IF save_ok
    THEN [param |-> [param EXCEPT !.entries[i].flags = @ \ {"DIRTY"}],
          nvs |-> (param.entries[i].def.id :> param.entries[i].value) @@ store]
    ELSE [param |-> param, nvs |-> store]

\* ur_param_load_all: the persistent entries take the stored value
ur_param_load_all(param, store) ==
    IF ~param.storage THEN param
    ELSE [param EXCEPT !.entries =
            [i \in 1 .. Len(param.entries) |->
                IF /\ "PERSIST" \in param.entries[i].def.flags
                   /\ param.entries[i].def.id \in DOMAIN store
                THEN [param.entries[i] EXCEPT
                        !.value = store[param.entries[i].def.id]]
                ELSE param.entries[i]]]

\* ur_param_save_all from entry i on
RECURSIVE ur_param_save_all(_, _, _, _)
ur_param_save_all(param, store, i, save_ok) ==
    LET saved(r) == ur_param_save_all(r.param, r.nvs, i + 1, save_ok)
    IN IF ~param.storage \/ i > Len(param.entries)
       THEN [param |-> param, nvs |-> store]
       ELSE IF "DIRTY" \in param.entries[i].flags
       THEN saved(save_entry(param, store, i, save_ok))
       ELSE ur_param_save_all(param, store, i + 1, save_ok)

\* the end of every setter: DIRTY, save unless in batch mode, notify
param_changed(param, store, i, save_ok) ==
    LET saved(r) ==
            [err |-> "UR_OK", param |-> r.param, nvs |-> r.nvs,
             notify |-> "NOTIFY" \in param.entries[i].def.flags]
    IN saved(IF ~param.batch_mode /\ "PERSIST" \in param.entries[i].def.flags
             THEN save_entry([param EXCEPT !.entries[i].flags = @ \cup {"DIRTY"}],
                             store, i, save_ok)
             ELSE [param |-> [param EXCEPT !.entries[i].flags = @ \cup {"DIRTY"}],
                   nvs |-> store])

\* the checks every setter starts with; "" when they pass
param_set_check(param, i, param_type) ==
    IF i = 0 THEN "UR_ERR_NOT_FOUND"
    ELSE IF param.entries[i].def.type # param_type THEN "UR_ERR_INVALID_ARG"
    ELSE IF "READONLY" \in param.entries[i].def.flags THEN "UR_ERR_INVALID_STATE"
    ELSE ""

\* PARAM_SET_IMPL past the checks: the scalar setters
PARAM_SET_IMPL(param, store, i, value, save_ok) ==
    IF param.entries[i].value = value
    THEN [err |-> "UR_OK", param |-> param, nvs |-> store, notify |-> FALSE]
    ELSE param_changed([param EXCEPT !.entries[i].value = value], store, i, save_ok)

\* ur_param_set_str past the checks
ur_param_set_str(param, store, i, value, save_ok) ==
    IF str_prefix(param.entries[i].value, param.entries[i].def.size - 1)
          = str_prefix(value, param.entries[i].def.size - 1)
    THEN [err |-> "UR_OK", param |-> param, nvs |-> store, notify |-> FALSE]
    ELSE param_changed(
            [param EXCEPT !.entries[i].value =
                str_prefix(value, param.entries[i].def.size - 1)],
            store, i, save_ok)

\* ur_param_set_blob past the checks
ur_param_set_blob(param, store, i, data, save_ok) ==
    param_changed(
        [param EXCEPT !.entries[i].value =
            blob_copy(@, data, param.entries[i].def.size)],
        store, i, save_ok)

\* a call of the setter of param_type
ur_param_set_res(param, store, id, param_type, value, save_ok) ==
    LET checked(i, err) ==
            IF err # ""
            THEN [err |-> err, param |-> param, nvs |-> store, notify |-> FALSE]
            ELSE IF param_type = "UR_PARAM_TYPE_STR"
            THEN ur_param_set_str(param, store, i, value, save_ok)
            ELSE IF param_type = "UR_PARAM_TYPE_BLOB"
            THEN ur_param_set_blob(param, store, i, value, save_ok)
            ELSE PARAM_SET_IMPL(param, store, i, value, save_ok)
        found(i) == checked(i, param_set_check(param, i, param_type))
    IN found(find_entry(param, id))

\* g_bus after a publish with outcome r
bus_published(bus, r) ==
    [initialized |-> TRUE,
     topics |-> IF bus.initialized THEN bus.topics ELSE << >>,
     stats |-> r.stats]

\* notify_change: SIG_PARAM_CHANGED from source 0 on the bus
ur_param_set(id, param_type, value) ==
    \E save_ok \in BOOLEAN :
    \E r \in {ur_param_set_res(g_param, nvs, id, param_type, value, save_ok)} :
    \E b \in {ur_publish_res(g_bus, g_entity_registry, inbox,
                             ur_signal_create(SIG_PARAM_CHANGED, 0))} :
       /\ g_param' = r.param
       /\ nvs' = r.nvs
       /\ IF r.notify
          THEN inbox' = b.inbox /\ g_bus' = bus_published(g_bus, b)
          ELSE UNCHANGED << inbox, g_bus >>
       /\ last' = [op |-> "ur_param_set", id |-> id, type |-> param_type,
                   value |-> value, err |-> r.err, notified |-> r.notify]
       /\ UNCHANGED << ents, disp, g_power, g_acl, g_sup, g_entity_registry,
                       clock, walk, g_routes, ioVars >>

\* storage: whether the application passes a storage backend
ur_param_init(storage) ==
    \E b \in {ur_publish_res(g_bus, g_entity_registry, inbox,
                             ur_signal_create(SIG_PARAM_READY, 0))} :
       /\ g_param' = [ur_param_load_all(
                         [ParamZero EXCEPT
                            !.storage = storage,
                            !.entries = [i \in 1 .. Len(ParamDefs) |->
                                [def |-> ParamDefs[i],
                                 value |-> ParamDefs[i].default_val,
                                 flags |-> ParamDefs[i].flags \ {"DIRTY"}]]],
                         nvs)
                      EXCEPT !.initialized = TRUE]
       /\ inbox' = b.inbox
       /\ g_bus' = bus_published(g_bus, b)
       /\ last' = [op |-> "ur_param_init", err |-> "UR_OK"]
       /\ UNCHANGED << ents, disp, g_power, g_acl, g_sup, g_entity_registry,
                       nvs, clock, walk, g_routes, ioVars >>

ParamValues(param) == [i \in 1 .. Len(param.entries) |-> param.entries[i].value]

ur_param_batch_begin ==
    /\ g_param' = [g_param EXCEPT
                      !.batch_mode = TRUE,
                      !.at_begin = IF g_param.batch_mode THEN @
                                   ELSE ParamValues(g_param)]
    /\ last' = [op |-> "ur_param_batch_begin"]
    /\ UNCHANGED << ents, inbox, disp, g_power, g_bus, g_acl, g_sup,
                    g_entity_registry, nvs, clock, walk, g_routes, ioVars >>

ur_param_commit ==
    \E save_ok \in BOOLEAN :
    \E r \in {ur_param_save_all([g_param EXCEPT !.batch_mode = FALSE], nvs, 1,
                                save_ok)} :
       /\ g_param' = r.param
       /\ nvs' = r.nvs
       /\ last' = [op |-> "ur_param_commit"]
       /\ UNCHANGED << ents, inbox, disp, g_power, g_bus, g_acl, g_sup,
                       g_entity_registry, clock, walk, g_routes, ioVars >>

\* the dirty entries go back to their default, then ur_param_load_all
ur_param_batch_abort_res(param, store) ==
    ur_param_load_all(
        [param EXCEPT
            !.batch_mode = FALSE,
            !.entries = [i \in 1 .. Len(param.entries) |->
                IF "DIRTY" \in param.entries[i].flags
                THEN [param.entries[i] EXCEPT
                        !.value = param.entries[i].def.default_val,
                        !.flags = @ \ {"DIRTY"}]
                ELSE param.entries[i]]],
        store)

ur_param_batch_abort ==
    /\ g_param' = ur_param_batch_abort_res(g_param, nvs)
    /\ last' = [op |-> "ur_param_batch_abort", in_batch |-> g_param.batch_mode]
    /\ UNCHANGED << ents, inbox, disp, g_power, g_bus, g_acl, g_sup,
                    g_entity_registry, nvs, clock, walk, g_routes, ioVars >>

(* ------------------------------------------------------------------ *)
(* Specification of the parameters: an application that initializes   *)
(* the table once, with or without storage, sets values, and runs      *)
(* batches                                                             *)
(* ------------------------------------------------------------------ *)
NextParam ==
    \/ \E storage \in BOOLEAN : ~g_param.initialized /\ ur_param_init(storage)
    \/ \E a \in ParamSetArgs :
          /\ g_bus.stats.publish_count < MaxNotify
          /\ ur_param_set(a.id, a.type, a.value)
    \/ ur_param_batch_begin
    \/ ur_param_commit
    \/ ur_param_batch_abort

SpecParam == Init /\ [][NextParam]_vars

\* C12: two consecutive calls set(id, v); set(id, v), of any type, trigger
\* at most one PARAM_CHANGED notification.
C12_SecondSetIsSilent ==
    [][ ( /\ last.op = "ur_param_set" /\ last'.op = "ur_param_set"
          /\ last.err = "UR_OK" /\ last'.err = "UR_OK"
          /\ last'.id = last.id /\ last'.type = last.type
          /\ last'.value = last.value )
        => ~(last.notified /\ last'.notified) ]_vars

\* C13: after batch_begin, any sequence of set calls, and batch_abort,
\* every parameter's RAM value is the one it held at batch_begin, and
\* batch mode is off.
C13_AbortRestoresBegin ==
    (last.op = "ur_param_batch_abort" /\ last.in_batch)
        => /\ ParamValues(g_param) = g_param.at_begin
           /\ ~g_param.batch_mode

(* ------------------------------------------------------------------ *)
(* ur_core.c: rule lookup and ur_in_state, one loop iteration a step  *)
(* ------------------------------------------------------------------ *)
\* ids of the states of a configured table; NumWalkStates + 1 is an id
\* that no state of the table carries
NumWalkStates == 3
MaxWalkSteps == 4

WalkStates == 1 .. NumWalkStates

\* The tables ur_init accepts: it stores config->states as given, so any
\* parent_id (0 = none) may stand in any state.  Every state has one
\* rule, for the looked-up signal (rule_in) or for another one, and the
\* one bound mixin has one rule (mixin_rule: it is for the signal).
WalkTables ==
    [pc : {"idle"},
     parent_id : [WalkStates -> 0 .. NumWalkStates + 1],
     rule_in : SUBSET WalkStates,
     mixin_rule : BOOLEAN,
     current_state : WalkStates,
     state : {0}, state_id : {0}, visited : {<< >>},
     comparisons : {0}, result : {"none"}]

\* find_state on a walk table: 0 is NULL
walk_find_state(id) == IF id \in WalkStates THEN id ELSE 0

\* a walk that has returned
walk_return(w, res) == [w EXCEPT !.pc = "returned", !.result = res]

\* cascading_lookup up to the head of the bubble-up loop
cascading_lookup_begin ==
    /\ walk.pc = "idle"
    /\ walk' =
         LET w1 == [walk EXCEPT !.state = walk_find_state(walk.current_state),
                                !.comparisons = 1, !.visited = << >>]
             w2 == [w1 EXCEPT !.comparisons = 2]
         IN IF walk.current_state \in walk.rule_in THEN walk_return(w1, "rule")
            ELSE IF walk.mixin_rule THEN walk_return(w2, "rule")
            ELSE [w2 EXCEPT !.pc = "lookup"]
    /\ UNCHANGED << ents, inbox, disp, last, g_power, g_bus, g_acl, g_sup,
                    g_entity_registry, g_param, nvs, clock, g_routes, ioVars >>

\* one evaluation of the loop condition of the bubble-up and, when it
\* holds, one run of the loop body
cascading_lookup_step ==
    /\ walk.pc = "lookup"
    /\ walk' =
         IF walk.state # 0 /\ walk.parent_id[walk.state] # 0
         THEN LET parent == walk_find_state(walk.parent_id[walk.state])
                  w1 == [walk EXCEPT !.state = parent]
                  w2 == [w1 EXCEPT !.visited = Append(@, parent),
                                   !.comparisons = @ + 1]
              IN IF parent = 0 THEN w1
                 ELSE IF parent \in walk.rule_in THEN walk_return(w2, "rule")
                 ELSE w2
         ELSE walk_return(walk, "NULL")
    /\ UNCHANGED << ents, inbox, disp, last, g_power, g_bus, g_acl, g_sup,
                    g_entity_registry, g_param, nvs, clock, g_routes, ioVars >>

\* ur_in_state up to the head of the parent loop
ur_in_state_begin(state_id) ==
    /\ walk.pc = "idle"
    /\ walk' =
         LET w1 == [walk EXCEPT !.state_id = state_id, !.visited = << >>,
                                !.comparisons = 0]
         IN IF walk.current_state = state_id THEN walk_return(w1, "true")
            ELSE [w1 EXCEPT !.pc = "in_state",
                            !.state = walk_find_state(walk.current_state)]
    /\ UNCHANGED << ents, inbox, disp, last, g_power, g_bus, g_acl, g_sup,
                    g_entity_registry, g_param, nvs, clock, g_routes, ioVars >>

\* one evaluation of the loop condition of ur_in_state and, when it
\* holds, one run of the loop body
ur_in_state_step ==
    /\ walk.pc = "in_state"
    /\ walk' =
         IF walk.state # 0 /\ walk.parent_id[walk.state] # 0
         THEN LET parent == walk_find_state(walk.parent_id[walk.state])
              IN IF walk.parent_id[walk.state] = walk.state_id
                 THEN walk_return(walk, "true")
                 ELSE [walk EXCEPT !.state = parent,
                                   !.visited = IF parent = 0 THEN @
                                               ELSE Append(@, parent)]
         ELSE walk_return(walk, "false")
    /\ UNCHANGED << ents, inbox, disp, last, g_power, g_bus, g_acl, g_sup,
                    g_entity_registry, g_param, nvs, clock, g_routes, ioVars >>

\* the caller goes on after the return
walk_done ==
    /\ walk.pc = "returned"
    /\ walk' = [walk EXCEPT !.pc = "idle"]
    /\ UNCHANGED << ents, inbox, disp, last, g_power, g_bus, g_acl, g_sup,
                    g_entity_registry, g_param, nvs, clock, g_routes, ioVars >>

InitLookup == InitProgram /\ clock = 0 /\ walk \in WalkTables

NextLookup ==
    \/ cascading_lookup_begin
    \/ Len(walk.visited) < MaxWalkSteps /\ cascading_lookup_step
    \/ \E state_id \in 1 .. NumWalkStates + 1 : ur_in_state_begin(state_id)
    \/ Len(walk.visited) < MaxWalkSteps /\ ur_in_state_step
    \/ walk_done

SpecLookup == InitLookup /\ [][NextLookup]_vars

\* C14: in a rule lookup and in an ancestor walk of ur_in_state each
\* ancestor is visited at most once, and a lookup makes at most
\* |rules in the current state| + |mixin rules| + |rules along the parent
\* chain| comparisons (here 1 + 1 + the number of ancestors).
C14_AncestorsVisitedOnce ==
    /\ \A i, j \in 1 .. Len(walk.visited) :
           walk.visited[i] = walk.visited[j] => i = j
    /\ walk.comparisons
           <= 2 + Cardinality({walk.visited[i] : i \in 1 .. Len(walk.visited)})

(* ------------------------------------------------------------------ *)
(* ur_codec.c: RPC gateway; ur_wormhole.c: receive task               *)
(* ------------------------------------------------------------------ *)
UR_CFG_WORMHOLE_MAX_ROUTES == 32

\* Whole frames as they arrive on the link: the two bytes of the signal
\* id, the two bytes of the source id, and whether the CRC bytes fit the
\* rest.  The sender chooses every byte.
RxFrames ==
    [sig_lo : {2}, sig_hi : {1}, src_lo : {0, 3}, src_hi : {0, 1},
     crc_ok : BOOLEAN]

\* ur_codec_decode_binary on a buffer that holds one whole frame
ur_codec_decode_binary(frame) ==
    IF ~frame.crc_ok
    THEN [err |-> "UR_ERR_INVALID_ARG", complete |-> FALSE, signal |-> NoSig]
    ELSE [err |-> "UR_OK", complete |-> TRUE,
          signal |-> ur_signal_create(frame.sig_lo + 256 * frame.sig_hi,
                                      frame.src_lo + 256 * frame.src_hi)]

\* ur_rpc_process(data, len, UR_CODEC_BINARY, target_id); no receive
\* callback is installed
ur_rpc_process(frame, target_id) ==
    LET result == ur_codec_decode_binary(frame)
        target == ur_get_entity(g_entity_registry, target_id)
        emitted(q) ==
            /\ inbox' = IF target = 0 THEN inbox ELSE [inbox EXCEPT ![target] = q.q]
            /\ last' = [op |-> "ur_rpc_process", sig |-> result.signal,
                        err |-> IF target = 0 THEN "UR_ERR_NOT_FOUND" ELSE q.err]
    IN /\ IF result.err # "UR_OK" \/ ~result.complete
          THEN /\ last' = [op |-> "ur_rpc_process", sig |-> NoSig, err |-> result.err]
               /\ UNCHANGED inbox
          ELSE IF target_id = 0
          THEN /\ last' = [op |-> "ur_rpc_process", sig |-> result.signal,
                           err |-> "UR_ERR_NOT_FOUND"]
               /\ UNCHANGED inbox
          ELSE emitted(ur_emit_res(inbox[IF target = 0 THEN 1 ELSE target],
                                   result.signal))
       /\ UNCHANGED << ents, disp, extVars >>

ur_wormhole_add_route(local_id, remote_id) ==
    /\ g_routes' =
         IF Len(g_routes) >= UR_CFG_WORMHOLE_MAX_ROUTES
            \/ \E i \in 1 .. Len(g_routes) :
                  g_routes[i] = [entity_id |-> local_id, remote_id |-> remote_id]
         THEN g_routes
         ELSE Append(g_routes, [entity_id |-> local_id, remote_id |-> remote_id])
    /\ last' = [op |-> "ur_wormhole_add_route", err |->
                  IF Len(g_routes) >= UR_CFG_WORMHOLE_MAX_ROUTES THEN "UR_ERR_NO_MEMORY"
                  ELSE IF g_routes' = g_routes THEN "UR_ERR_ALREADY_EXISTS"
                  ELSE "UR_OK"]
    /\ UNCHANGED << ents, inbox, disp, g_power, g_bus, g_acl, g_sup,
                    g_entity_registry, g_param, nvs, clock, walk, ioVars >>

\* find_route_by_remote: the entity of the first route with the remote
\* id, 0 when there is none
find_route_by_remote(remote_id) ==
    LET hits == {i \in 1 .. Len(g_routes) : g_routes[i].remote_id = remote_id}
    IN IF hits = {} THEN 0
       ELSE g_routes[CHOOSE i \in hits : \A j \in hits : i <= j].entity_id

\* wormhole_rx_task: what it does with one complete frame
wormhole_rx_task(frame) ==
    LET src_id == frame.src_lo + 256 * frame.src_hi
        sig == ur_signal_create(frame.sig_lo + 256 * frame.sig_hi, src_id)
        target == IF frame.crc_ok
                  THEN ur_get_entity(g_entity_registry, find_route_by_remote(src_id))
                  ELSE 0
        emitted(q) ==
            /\ inbox' = [inbox EXCEPT ![target] = q.q]
            /\ last' = [op |-> "wormhole_rx_task", sig |-> sig, err |-> q.err]
    IN /\ IF target = 0
          THEN /\ last' = [op |-> "wormhole_rx_task", sig |-> NoSig,
                           err |-> "UR_ERR_NOT_FOUND"]
               /\ UNCHANGED inbox
          ELSE emitted(ur_emit_res(inbox[target], sig))
       /\ UNCHANGED << ents, disp, extVars >>

NextGateway ==
    \/ ur_register_entity(1)
    \/ \E remote_id \in {3, 256} : ur_wormhole_add_route(1, remote_id)
    \/ \E frame \in RxFrames, target_id \in 0 .. 2 : ur_rpc_process(frame, target_id)
    \/ \E frame \in RxFrames : wormhole_rx_task(frame)

SpecGateway == Init /\ [][NextGateway]_vars

\* C15: a signal that the RPC gateway or the wormhole receive task has put
\* into an inbox is matched by ACL rules with source EXTERNAL and by no
\* rule with source LOCAL, whatever source id its frame carried.
C15_ReceivedIsExternal ==
    (last.op \in {"ur_rpc_process", "wormhole_rx_task"} /\ last.err = "UR_OK")
        => /\ match_source(UR_ACL_SRC_EXTERNAL, last.sig.src_id)
           /\ ~match_source(UR_ACL_SRC_LOCAL, last.sig.src_id)

(* ------------------------------------------------------------------ *)
(* ur_supervisor.c: a child that keeps reporting                       *)
(* ------------------------------------------------------------------ *)
\* one supervisor with max_restarts = 0 and one child, which reports as
\* often as it likes; nobody calls ur_reset_restart_count
NextSupCap ==
    \/ ur_supervisor_create(1, 0)
    \/ ur_supervisor_add_child(1, 2)
    \/ ur_report_dying(2)
    \/ restart_timer_callback

SpecSupCap == Init /\ [][NextSupCap]_vars

\* C16: once a child's restart counter has exceeded max_restarts, every
\* later ur_report_dying for the child returns invalid-state and schedules
\* no restart.
C16_ExceededStaysExceeded ==
    [][ \A si \in 1 .. Len(g_sup.supervisors) :
          ( /\ ur_get_restart_count(g_sup, 2) > g_sup.supervisors[si].max_restarts
            /\ last'.op = "ur_report_dying"
            /\ g_sup' # g_sup )
          => /\ last'.err = "UR_ERR_INVALID_STATE"
             /\ g_sup'.pending = g_sup.pending
             /\ g_sup'.timer_active = g_sup.timer_active ]_vars

(* ------------------------------------------------------------------ *)
(* Properties of the dispatcher: signals without a rule                *)
(* ------------------------------------------------------------------ *)
\* the state with id sid and its ancestors, at most n of them
RECURSIVE ParentChain(_, _)
ParentChain(sid, n) ==
    IF n = 0 \/ sid = 0 THEN {}
    ELSE {sid} \cup UNION {ParentChain(StateTable[i].parent_id, n - 1) :
                             i \in {j \in 1 .. Len(StateTable) : StateTable[j].id = sid}}

\* no rule for the signal in the current state, in a bound mixin or in an
\* ancestor of the current state
NoRuleAnywhere(E, signal_id) ==
    /\ \A i \in 1 .. Len(StateTable) :
          StateTable[i].id \in ParentChain(E.current_state, Len(StateTable))
             => \A k \in 1 .. Len(StateTable[i].rules) :
                   StateTable[i].rules[k].signal_id # signal_id
    /\ \A m \in 1 .. Len(E.mixins) :
          \A k \in 1 .. Len(MixinTable[E.mixins[m]].rules) :
             MixinTable[E.mixins[m]].rules[k].signal_id # signal_id

C18_StartedHasInit ==
    (last.op = "ur_start" /\ last.err = "UR_OK")
        => /\ "ACTIVE" \in ents[last.ent].flags
           /\ ents[last.ent].current_state = ents[last.ent].initial_state
           /\ \E i \in 1 .. Len(inbox[last.ent]) :
                 inbox[last.ent][i] = ur_signal_create(SIG_SYS_INIT, last.ent)

(* ------------------------------------------------------------------ *)
(* ur_flow.h: an entity whose flow waits for a time, and the clock     *)
(* ------------------------------------------------------------------ *)
\* the clock value at which the modelled runs end
MaxClock == 3

\* ur_get_time_ms moves on by one millisecond
Tick ==
    /\ clock' = u32_add(clock, 1)
    /\ UNCHANGED << ents, inbox, disp, last, g_power, g_bus, g_acl, g_sup,
                    g_entity_registry, g_param, nvs, walk, g_routes, ioVars >>

\* the program starts at boot or shortly before the clock wraps
InitFlowTime ==
    /\ InitProgram /\ walk = NoWalk
    /\ clock \in {0, -AwaitMs}

NextFlowTime ==
    \/ ur_start(1)
    \/ ur_bind_mixin(1, "timer_mixin")
    \/ ur_emit(1, ur_signal_create(SIG_SYS_TICK, 0))
    \/ ur_dispatch_receive(1)
    \/ ur_dispatch_process(1)
    \/ clock # MaxClock /\ Tick

SpecFlowTime == InitFlowTime /\ [][NextFlowTime]_vars

\* The clock values of a run lie between -AwaitMs (2^32 - AwaitMs) and
\* MaxClock, hence their order as integers is their order in time.
\* The clock value at which the pending UR_AWAIT_TIME was executed:
AwaitedAt(E) == E.flow_wait_until - AwaitMs

\* C19: a flow that executed await-time(t) at clock c is not resumed past
\* the wait by a dispatch that happens before the monotonic clock has
\* advanced by t since c; such a dispatch changes neither the entity's
\* state nor its flow position.
C19_NoResumeBeforeTime ==
    [][ ( /\ disp[1].pc = "process" /\ disp'[1].pc = "idle"
          /\ ents[1].flow_line = FLOW_LINE_TIME
          /\ clock - AwaitedAt(ents[1]) < AwaitMs )
        => /\ ents'[1].current_state = ents[1].current_state
           /\ ents'[1].flow_line = ents[1].flow_line ]_vars

NextFlowGoto ==
    \/ ur_start(1)
    \/ ur_bind_mixin(1, "goto_mixin")
    \/ ur_emit(1, ur_signal_create(SIG_SYS_TIMEOUT, 0))
    \/ ur_dispatch_receive(1)
    \/ ur_dispatch_process(1)
    \/ clock # MaxClock /\ Tick

SpecFlowGoto == Init /\ [][NextFlowGoto]_vars

\* ids of the states of the table
StateIds == {StateTable[i].id : i \in 1 .. Len(StateTable)}

\* the step is a dispatch of entity 1 in which the flow executes
\* UR_FLOW_GOTO(s) for a state s of the table
GotoStep ==
    /\ disp[1].pc = "process" /\ disp'[1].pc = "idle"
    /\ last'.rule.action = "goto"
    /\ ents[1].flow_line = FLOW_LINE_GOTO
    /\ last'.ret \in StateIds

\* C21 as stated: flow-goto(s), for every state s of the table, resets the
\* flow state (resume line, awaited signal, wake time) and runs the exit,
\* swap, entry protocol with target s.
C21_GotoAlwaysTransitions ==
    [][ GotoStep
        => /\ FlowOf(ents'[1]) = FlowZero
           /\ ents'[1].current_state = last'.ret
           /\ last'.calls = ActionCall(last'.rule)
                              \o ExitCall(ents[1].current_state)
                              \o EntryCall(last'.ret) ]_vars

\* C21: flow-goto(s) for a state s other than the current one resets the
\* flow state and runs the exit, swap, entry protocol with target s;
\* flow-goto of the current state resets the resume line and the running
\* flag only: no exit or entry action runs and the wake time stays.
C21_GotoOtherStateTransitions ==
    [][ GotoStep
        => IF last'.ret # ents[1].current_state
           THEN /\ FlowOf(ents'[1]) = FlowZero
                /\ ents'[1].current_state = last'.ret
                /\ last'.calls = ActionCall(last'.rule)
                                   \o ExitCall(ents[1].current_state)
                                   \o EntryCall(last'.ret)
           ELSE /\ ents'[1].current_state = ents[1].current_state
                /\ ents'[1].flow_line = 0
                /\ "FLOW_RUNNING" \notin ents'[1].flags
                /\ ents'[1].flow_wait_until = ents[1].flow_wait_until
                /\ last'.calls = ActionCall(last'.rule) ]_vars

\* a flow-goto has moved the entity from STANDBY to NORMAL
C21_Witness ==
    /\ Dispatched /\ last.rule.action = "goto"
    /\ last.flow_before.line = FLOW_LINE_GOTO
    /\ last.from = STATE_CTRL_STANDBY /\ last.to = STATE_CTRL_NORMAL
    /\ last.ret = STATE_CTRL_NORMAL

(* ------------------------------------------------------------------ *)
(* ur_core.c: a whole ur_dispatch call; ur_core.h: the run loop        *)
(* ------------------------------------------------------------------ *)
ur_dispatch_res_no_dequeue(E, entity_id, q, acl, r, tallow, now) ==
    LET d == ur_dispatch_process_res(E, entity_id, Head(q), acl, r, tallow, now)
    IN IF "ACTIVE" \notin E.flags \/ "SUSPENDED" \in E.flags
       THEN [err |-> "UR_ERR_INVALID_STATE", ent |-> E, q |-> q, acl |-> acl,
             rule |-> NoRule, calls |-> << >>, mw |-> "none"]
       ELSE IF q = << >>
       THEN [err |-> "UR_ERR_TIMEOUT", ent |-> E, q |-> q, acl |-> acl,
             rule |-> NoRule, calls |-> << >>, mw |-> "none"]
       ELSE [err |-> "UR_OK", ent |-> d.ent, q |-> q, acl |-> d.acl,
             rule |-> d.rule, calls |-> d.calls, mw |-> d.mw]

\* ur_dispatch(ent, 0) from the flag check to the return, with q the inbox
ur_dispatch_res(E, entity_id, q, acl, r, tallow, now) ==
    LET processed(d) ==
            [err |-> "UR_OK", ent |-> d.ent, q |-> Tail(q), acl |-> d.acl,
             rule |-> d.rule, calls |-> d.calls, mw |-> d.mw]
        quit(err) ==
            [err |-> err, ent |-> E, q |-> q, acl |-> acl, rule |-> NoRule,
             calls |-> << >>, mw |-> "none"]
    IN IF "ACTIVE" \notin E.flags \/ "SUSPENDED" \in E.flags
       THEN quit("UR_ERR_INVALID_STATE")
       ELSE IF q = << >> THEN quit("UR_ERR_TIMEOUT")
       ELSE processed(ur_dispatch_process_res(E, entity_id, Head(q), acl, r,
                                              tallow, now))

\* UR_FLOW_IS_WAITING_TIME(ent)
UR_FLOW_IS_WAITING_TIME(E, now) ==
    E.flow_wait_until # 0 /\ u32_lt(now, E.flow_wait_until)

\* ur_run on the entities from position i on: one dispatch per entity,
\* then a SIG_SYS_TIMEOUT for the entity if its wake time has elapsed.
\* st = [ents, inbox, acl, total]
RECURSIVE ur_run_res(_, _, _, _, _, _)
ur_run_res(st, entities, i, r, tallow, now) ==
    LET e == entities[i]
        timeout(q, E) ==
            IF E.flow_wait_until # 0 /\ ~UR_FLOW_IS_WAITING_TIME(E, now)
            THEN ur_emit_res(q, ur_signal_create(SIG_SYS_TIMEOUT, 0)).q
            ELSE q
        after(d) ==
            ur_run_res([ents |-> [st.ents EXCEPT ![e] = d.ent],
                        inbox |-> [st.inbox EXCEPT ![e] = timeout(d.q, d.ent)],
                        acl |-> d.acl,
                        total |-> st.total + IF d.err = "UR_OK" THEN 1 ELSE 0],
                       entities, i + 1, r, tallow, now)
    IN IF i > Len(entities) THEN st
       ELSE after(ur_dispatch_res(st.ents[e], e, st.inbox[e], st.acl, r,
                                  tallow, now))

\* the entities the application lists
RunEntities == << 1 >>

ur_run ==
    /\ \A e \in Ents : disp[e].pc = "idle"
    /\ \E r \in StateIds, tallow \in BOOLEAN :
       \E st \in {ur_run_res([ents |-> ents, inbox |-> inbox, acl |-> g_acl,
                              total |-> 0], RunEntities, 1, r, tallow, clock)} :
          /\ ents' = st.ents
          /\ inbox' = st.inbox
          /\ g_acl' = st.acl
          /\ last' = [op |-> "ur_run", total |-> st.total]
    /\ UNCHANGED << disp, g_power, g_bus, g_sup, g_entity_registry, envVars >>

\* before its flow waits the entity gets a tick or a timeout from the
\* application; from then on the run loop is the only producer
NextRun ==
    \/ ur_start(1)
    \/ \E m \in {"timer_mixin", "goto_mixin"} : ur_bind_mixin(1, m)
    \/ \E s \in {SIG_SYS_TICK, SIG_SYS_TIMEOUT} :
          /\ ents[1].flow_line = 0
          /\ ur_emit(1, ur_signal_create(s, 0))
    \/ ur_run
    \/ clock # MaxClock /\ Tick

SpecRun == Init /\ [][NextRun]_vars

\* a step of the run loop that dispatches a SIG_SYS_TIMEOUT to entity 1
\* while its flow is suspended at a time wait whose wake time has elapsed
RunDispatchesTimeoutToWaitingFlow ==
    /\ last'.op = "ur_run"
    /\ "ACTIVE" \in ents[1].flags /\ "SUSPENDED" \notin ents[1].flags
    /\ "FLOW_RUNNING" \in ents[1].flags
    /\ ents[1].flow_line \in {FLOW_LINE_TIME, FLOW_LINE_GOTO}
    /\ ents[1].flow_wait_until # 0
    /\ ~u32_lt(clock, ents[1].flow_wait_until)
    /\ inbox[1] # << >>
    /\ Head(inbox[1]).id = SIG_SYS_TIMEOUT

\* every step of the run loop leaves a SIG_SYS_TIMEOUT at the tail of the
\* inbox of an entity whose wake time has elapsed
RunDeliversTimeout ==
    last'.op = "ur_run" /\ ents'[1].flow_wait_until # 0
        /\ ~u32_lt(clock, ents'[1].flow_wait_until)
    => /\ inbox'[1] # << >>
       /\ inbox'[1][Len(inbox'[1])].id = SIG_SYS_TIMEOUT

MaxCount == 3

\* int count = 0; pre records whether the entity is active and not
\* suspended at the call
ur_dispatch_all_call(e) ==
    /\ disp[e].pc = "idle"
    /\ disp' = [disp EXCEPT ![e] =
                   [pc |-> "all", sig |-> NoSig, count |-> 0,
                    pre |-> "ACTIVE" \in ents[e].flags
                            /\ "SUSPENDED" \notin ents[e].flags]]
    /\ last' = [op |-> "ur_dispatch_all_call", ent |-> e]
    /\ UNCHANGED << ents, inbox, extVars >>

\* one evaluation of the loop condition: ur_dispatch(ent, 0) == UR_OK,
\* then count++ or the end of the loop
ur_dispatch_all_loop(e) ==
    /\ disp[e].pc = "all"
    /\ \E r \in ActionReturns, tallow \in BOOLEAN :
       \E d \in {ur_dispatch_res(ents[e], e, inbox[e], g_acl, r, tallow, clock)} :
          /\ ents' = [ents EXCEPT ![e] = d.ent]
          /\ inbox' = [inbox EXCEPT ![e] = d.q]
          /\ g_acl' = d.acl
          /\ disp' = [disp EXCEPT ![e] =
                         IF d.err = "UR_OK"
                         THEN [@ EXCEPT !.count = IF @ < MaxCount THEN @ + 1 ELSE @]
                         ELSE [@ EXCEPT !.pc = "all_return"]]
          /\ last' = [op |-> "ur_dispatch_all_loop", ent |-> e, err |-> d.err]
    /\ UNCHANGED << g_power, g_bus, g_sup, g_entity_registry, envVars >>

\* return count
ur_dispatch_all_return(e) ==
    /\ disp[e].pc = "all_return"
    /\ disp' = [disp EXCEPT ![e] = [pc |-> "idle", sig |-> NoSig]]
    /\ last' = [op |-> "ur_dispatch_all", ent |-> e, count |-> disp[e].count,
                pre |-> disp[e].pre, left |-> Len(inbox[e])]
    /\ UNCHANGED << ents, inbox, extVars >>

NextDispatchAll ==
    \/ ur_start(1)
    \/ \E s \in {SIG_FAN_ON, SIG_LOW_BATTERY} : ur_emit(1, ur_signal_create(s, 0))
    \/ ur_dispatch_all_call(1)
    \/ ur_dispatch_all_loop(1)
    \/ ur_dispatch_all_return(1)

SpecDispatchAll == Init /\ [][NextDispatchAll]_vars

\* C23 (as stated): when ur_dispatch_all, called on an active entity that
\* is not suspended, returns, the entity's inbox is empty.
C23_ReturnsWithEmptyInbox ==
    last.op = "ur_dispatch_all" /\ last.pre => last.left = 0

\* C23 (amended): ur_dispatch_all called on an active entity that is not
\* suspended takes one signal off the inbox with every dispatch that
\* returns UR_OK and leaves its loop only at a dispatch that finds the inbox
\* empty (so the loop ends after as many dispatches as the inbox held,
\* plus one for every signal emitted meanwhile); when it returns the inbox
\* is empty unless a signal was emitted to the entity after that last
\* dispatch.
C23_DrainsUnlessEmitted ==
    /\ [][ last'.op = "ur_dispatch_all_loop" /\ disp[1].pre
           => /\ disp'[1].pc = "all" => inbox'[1] = Tail(inbox[1])
              /\ disp'[1].pc = "all_return" => inbox[1] = << >> ]_vars
    /\ [](disp[1].pc = "all_return" /\ disp[1].pre /\ inbox[1] # << >>
          => last.op = "ur_emit")

\* a call on an active entity has dispatched two signals and returned with
\* the inbox empty
C23_Witness ==
    /\ last.op = "ur_dispatch_all" /\ last.pre
    /\ last.count = 2 /\ last.left = 0

(* ------------------------------------------------------------------ *)
(* ur_pipe.c: a pipe over a FreeRTOS stream buffer                     *)
(* ------------------------------------------------------------------ *)
\* buffer_size given to ur_pipe_init
PipeSize == 3
\* the longest write, read or peek of the application
MaxChunk == 2
PipeBytes == {1, 2}
PipeChunks == UNION {[1 .. n -> PipeBytes] : n \in 1 .. MaxChunk}

Min(a, b) == IF a < b THEN a ELSE b

\* xStreamBufferSend with no wait: as many bytes as there is room for
ur_pipe_write_res(p, data) ==
    LET n == Min(Len(data), PipeSize - Len(p))
    IN [pipe |-> p \o SubSeq(data, 1, n), ret |-> n]

\* xStreamBufferReceive with no wait: up to size bytes, oldest first
ur_pipe_read_res(p, size) ==
    LET n == Min(size, Len(p))
    IN [pipe |-> SubSeq(p, n + 1, Len(p)), data |-> SubSeq(p, 1, n), ret |-> n]

\* ur_pipe_peek: read to_peek bytes, then write them back
ur_pipe_peek_res(p, size) ==
    LET rd(r) == [pipe |-> ur_pipe_write_res(r.pipe, r.data).pipe,
                  data |-> r.data, ret |-> r.ret]
    IN IF size = 0 \/ Len(p) = 0
       THEN [pipe |-> p, data |-> << >>, ret |-> 0]
       ELSE rd(ur_pipe_read_res(p, Min(size, Len(p))))

ur_pipe_write(data) ==
    /\ \E r \in {ur_pipe_write_res(pipe, data)} :
          /\ pipe' = r.pipe
          /\ last' = [op |-> "ur_pipe_write", data |-> data, ret |-> r.ret]
    /\ UNCHANGED << ents, inbox, disp, g_power, g_bus, g_acl, g_sup,
                    g_entity_registry, g_param, nvs, clock, walk, g_routes,
                    decoder, hist >>

ur_pipe_read(size) ==
    /\ \E r \in {ur_pipe_read_res(pipe, size)} :
          /\ pipe' = r.pipe
          /\ last' = [op |-> "ur_pipe_read", size |-> size, data |-> r.data,
                      ret |-> r.ret]
    /\ UNCHANGED << ents, inbox, disp, g_power, g_bus, g_acl, g_sup,
                    g_entity_registry, g_param, nvs, clock, walk, g_routes,
                    decoder, hist >>

ur_pipe_peek(size) ==
    /\ \E r \in {ur_pipe_peek_res(pipe, size)} :
          /\ pipe' = r.pipe
          /\ last' = [op |-> "ur_pipe_peek", size |-> size, data |-> r.data,
                      ret |-> r.ret]
    /\ UNCHANGED << ents, inbox, disp, g_power, g_bus, g_acl, g_sup,
                    g_entity_registry, g_param, nvs, clock, walk, g_routes,
                    decoder, hist >>

NextPipe ==
    \/ \E data \in PipeChunks : ur_pipe_write(data)
    \/ \E size \in 1 .. MaxChunk : ur_pipe_read(size)
    \/ \E size \in 1 .. MaxChunk : ur_pipe_peek(size)

SpecPipe == Init /\ [][NextPipe]_vars

\* C24: ur_pipe_peek returns the leading bytes of the pipe and leaves the
\* pipe holding the same bytes in the same order, so that a read of the same
\* size that follows it returns the bytes the peek returned.
C24_PeekLeavesPipe ==
    [][ /\ last'.op = "ur_pipe_peek"
           => /\ pipe' = pipe
              /\ last'.data = SubSeq(pipe, 1, Min(last'.size, Len(pipe)))
        /\ last.op = "ur_pipe_peek" /\ last'.op = "ur_pipe_read"
              /\ last'.size = last.size
           => last'.data = last.data ]_vars

(* ------------------------------------------------------------------ *)
(* ur_acl.c: the two predicates of a rule, over the 16-bit id space     *)
(* ------------------------------------------------------------------ *)
\* source ids and signal ids at the ends of the ranges the predicates
\* distinguish
MatchSrcIds == {0, 1, 2, UR_CFG_MAX_ENTITIES, UR_CFG_MAX_ENTITIES + 1,
                UR_ACL_SRC_LOCAL - 1, UR_ACL_SRC_LOCAL, UR_ACL_SRC_EXTERNAL}
MatchSigIds == {0, SIG_SYS_INIT, UR_ACL_SIG_SYSTEM - 1, UR_ACL_SIG_SYSTEM,
                SIG_TEMP_READING, SIG_FAN_ON, UR_ACL_SIG_USER - 1,
                UR_ACL_SIG_USER}

\* find_matching_rule evaluating a rule's source predicate on a signal
match_source_call(rule_src, actual_src) ==
    /\ last' = [op |-> "match_source", rule |-> rule_src, actual |-> actual_src,
                ret |-> match_source(rule_src, actual_src)]
    /\ UNCHANGED << ents, inbox, disp, extVars >>

\* find_matching_rule evaluating a rule's signal predicate on a signal
match_signal_call(rule_sig, actual_sig) ==
    /\ last' = [op |-> "match_signal", rule |-> rule_sig, actual |-> actual_sig,
                ret |-> match_signal(rule_sig, actual_sig)]
    /\ UNCHANGED << ents, inbox, disp, extVars >>

NextMatch ==
    \/ \E r \in MatchSrcIds, a \in MatchSrcIds : match_source_call(r, a)
    \/ \E r \in MatchSigIds, a \in MatchSigIds : match_signal_call(r, a)

SpecMatch == Init /\ [][NextMatch]_vars

\* C25 (as stated): a rule naming any source id s matches exactly the
\* signals from s, and a rule naming any signal id g of 0x0001..0xFFFF
\* matches exactly the signals with id g.
C25_LiteralMatchesExactly ==
    /\ last.op = "match_source" => (last.ret <=> last.rule = last.actual)
    /\ last.op = "match_signal" /\ last.rule >= 1
          => (last.ret <=> last.rule = last.actual)

\* C25 (amended): a rule naming a source id s other than 0x0000, 0xFFFE
\* and 0xFFFF matches exactly the signals from s, and a rule naming a
\* signal id g other than 0x0000, 0x00FF and 0xFFFF matches exactly the
\* signals with id g; those five values are the wildcards ANY (everything),
\* LOCAL (sources 1..N), EXTERNAL (source 0 or above N), SYSTEM (ids
\* 0x0001..0x00FF) and USER (ids from 0x0100), and match those sets.
C25_NonWildcardMatchesExactly ==
    /\ last.op = "match_source" =>
          last.ret <=>
             CASE last.rule = 0 -> TRUE
               [] last.rule = 65534 -> last.actual \in 1 .. UR_CFG_MAX_ENTITIES
               [] last.rule = 65535 -> last.actual \notin 1 .. UR_CFG_MAX_ENTITIES
               [] OTHER -> last.rule = last.actual
    /\ last.op = "match_signal" =>
          last.ret <=>
             CASE last.rule = 0 -> TRUE
               [] last.rule = 255 -> last.actual \in 1 .. 255
               [] last.rule = 65535 -> last.actual \in 256 .. 65535
               [] OTHER -> last.rule = last.actual

\* a literal source id was compared with another id and did not match
C25_Witness ==
    /\ last.op = "match_source" /\ last.rule = 2 /\ last.actual = 1
    /\ ~last.ret

(* ------------------------------------------------------------------ *)
(* ur_codec.c: the streaming decoder, byte by byte                     *)
(* ------------------------------------------------------------------ *)
UR_CODEC_SYNC_BYTE == 85
UR_CODEC_HEADER_SIZE == 7
UR_CODEC_CRC_SIZE == 2
UR_CFG_CODEC_BUFFER_SIZE == 256

\* a ^ b on the bit patterns of two naturals
RECURSIVE bit_xor(_, _)
bit_xor(a, b) ==
    IF a = 0 THEN b
    ELSE IF b = 0 THEN a
    ELSE ((a + b) % 2) + 2 * bit_xor(a \div 2, b \div 2)

\* crc16_table[i]: the byte i divided by the polynomial 0x1021, bit by bit
RECURSIVE crc16_shift(_, _)
crc16_shift(c, n) ==
    IF n = 0 THEN c
    ELSE crc16_shift(IF c >= 32768 THEN bit_xor((c * 2) % 65536, 4129)
                     ELSE c * 2, n - 1)
crc16_table(i) == crc16_shift(i * 256, 8)

\* ur_crc16 of the bytes data[i..], with crc the value so far:
\* crc = (crc << 8) ^ crc16_table[((crc >> 8) ^ data[i]) & 0xFF], in 16 bits
RECURSIVE ur_crc16_from(_, _, _)
ur_crc16_from(data, i, crc) ==
    IF i > Len(data) THEN crc
    ELSE ur_crc16_from(data, i + 1,
            bit_xor((crc * 256) % 65536,
                    crc16_table(bit_xor(crc \div 256, data[i]) % 256)))
ur_crc16(data) == ur_crc16_from(data, 1, 65535)

\* ur_codec_encode_binary of a signal whose schema has no payload
wire_frame(sig) ==
    LET header == << UR_CODEC_SYNC_BYTE, 0, 0, sig.id % 256, sig.id \div 256,
                     sig.src_id % 256, sig.src_id \div 256 >>
        crc == ur_crc16(SubSeq(header, 2, Len(header)))
    IN header \o << crc % 256, crc \div 256 >>

\* ur_codec_decode_binary on the decoder's buffer: the buffer starts with
\* the sync byte and holds exactly the frame the length bytes announce
decode_buffer(buf) ==
    LET total_len == Len(buf)
        expected_crc == buf[total_len - 1] + 256 * buf[total_len]
        actual_crc == ur_crc16(SubSeq(buf, 2, total_len - 2))
    IN ur_codec_decode_binary([sig_lo |-> buf[4], sig_hi |-> buf[5],
                               src_lo |-> buf[6], src_hi |-> buf[7],
                               crc_ok |-> expected_crc = actual_crc])

\* ur_codec_decoder_reset
DecoderReset == [in_frame |-> FALSE, buffer |-> << >>, expected_len |-> 0]

\* the for loop of ur_codec_decoder_feed from byte i on; failed records
\* whether a complete frame of this call has failed its check
RECURSIVE decoder_feed_from(_, _, _, _)
decoder_feed_from(dec, data, i, failed) ==
    LET byte == data[i]
        b1 == Append(dec.buffer, byte)
        e1 == IF Len(b1) = 3
              THEN b1[2] + 256 * b1[3] + UR_CODEC_HEADER_SIZE + UR_CODEC_CRC_SIZE
              ELSE dec.expected_len
        done(r) ==
            IF r.err = "UR_OK" /\ r.complete
            THEN [decoder |-> DecoderReset, err |-> "UR_OK", sig |-> r.signal,
                  failed |-> failed]
            ELSE decoder_feed_from(DecoderReset, data, i + 1, TRUE)
    IN IF i > Len(data)
       THEN [decoder |-> dec, err |-> "UR_ERR_TIMEOUT", sig |-> NoSig,
             failed |-> failed]
       ELSE IF ~dec.in_frame
       THEN decoder_feed_from(
                IF byte = UR_CODEC_SYNC_BYTE
                THEN [dec EXCEPT !.in_frame = TRUE, !.buffer = << byte >>]
                ELSE dec, data, i + 1, failed)
       ELSE IF Len(dec.buffer) >= UR_CFG_CODEC_BUFFER_SIZE
       THEN decoder_feed_from(DecoderReset, data, i + 1, failed)
       ELSE IF Len(b1) = 3 /\ e1 > UR_CFG_CODEC_BUFFER_SIZE
       THEN decoder_feed_from(DecoderReset, data, i + 1, failed)
       ELSE IF Len(b1) >= UR_CODEC_HEADER_SIZE /\ Len(b1) >= e1
       THEN done(decode_buffer(b1))
       ELSE decoder_feed_from([dec EXCEPT !.buffer = b1, !.expected_len = e1],
                              data, i + 1, failed)

ur_codec_decoder_feed(data) ==
    /\ \E r \in {decoder_feed_from(decoder, data, 1, FALSE)} :
          /\ decoder' = r.decoder
          /\ last' = [op |-> "ur_codec_decoder_feed", data |-> data,
                      err |-> r.err, sig |-> r.sig, failed |-> r.failed]
    /\ UNCHANGED << ents, inbox, disp, g_power, g_bus, g_acl, g_sup,
                    g_entity_registry, g_param, nvs, clock, walk, g_routes,
                    pipe, hist >>

\* what the line delivers: a frame, the frame with its last byte damaged,
\* both cut into two reads at every place behind the length bytes, the
\* damaged frame with the good one right behind it, and noise
GoodFrame == wire_frame(ur_signal_create(SIG_FAN_ON, 3))
BadFrame == [GoodFrame EXCEPT ![Len(GoodFrame)] = (@ + 1) % 256]
FeedChunks ==
    {SubSeq(GoodFrame, 1, k) : k \in 3 .. Len(GoodFrame)}
    \cup {SubSeq(f, k + 1, Len(f)) : f \in {GoodFrame, BadFrame},
                                      k \in 3 .. Len(GoodFrame) - 1}
    \cup {BadFrame, BadFrame \o GoodFrame, << 0, 1 >>}

NextDecoder == \E data \in FeedChunks : ur_codec_decoder_feed(data)

SpecDecoder == Init /\ [][NextDecoder]_vars

\* C26: a call of ur_codec_decoder_feed in which a buffered complete frame
\* fails its CRC validation returns UR_ERR_INVALID_ARG, and
\* UR_ERR_TIMEOUT is returned only by calls that saw no complete frame.
C26_CrcFailureReported ==
    last.op = "ur_codec_decoder_feed" /\ last.failed
    => last.err = "UR_ERR_INVALID_ARG"

\* C27: a dispatch that changes the entity's state runs the old state's
\* on_exit, the swap and the new state's on_entry back to back, behind the
\* rule's action: the step that makes the transition dequeues no signal
\* of the entity and runs nothing else, so the signals that wait in the
\* inbox are processed only after the transition is complete.
C27_TransitionAtomic ==
    [][ /\ disp[1].pc = "process" /\ disp'[1].pc = "idle"
        /\ ents'[1].current_state # ents[1].current_state
        => /\ last'.calls = ActionCall(last'.rule)
                            \o ExitCall(ents[1].current_state)
                            \o EntryCall(ents'[1].current_state)
           /\ last'.sig = disp[1].sig
           /\ inbox'[1] = inbox[1] ]_vars

\* a transition from STANDBY to NORMAL has run on_exit and on_entry while
\* another signal waited in the inbox
C27_Witness ==
    /\ Dispatched /\ last.from = STATE_CTRL_STANDBY /\ last.to = STATE_CTRL_NORMAL
    /\ last.calls = << <<"on_exit", STATE_CTRL_STANDBY>>,
                       <<"on_entry", STATE_CTRL_NORMAL>> >>
    /\ inbox[1] # << >>

\* a dispatch of entity 1 has returned UR_OK for a signal that has a rule
\* in the state the entity was in
DispatchedStateRule ==
    /\ Dispatched /\ last.ent = 1
    /\ find_rule_in_state(find_state(last.from), last.sig.id).owner # "none"

\* a dispatch of entity 1 is between its receive and its return, with a
\* signal that has a rule in the entity's state
DispatchingStateRule ==
    /\ disp[1].pc = "process"
    /\ find_rule_in_state(find_state(ents[1].current_state),
                          disp[1].sig.id).owner # "none"

\* the calls of rule actions among the calls of a dispatch
ActionCalls(calls) == SelectSeq(calls, LAMBDA c : c[1] = "action")

\* C28 (as stated): a dispatch of a signal that has a rule in the current
\* state invokes the rule's action at most once and leaves the number of
\* signals in the inbox exactly 1 lower than it was before the dispatch:
\* the count is 1 lower once the signal is received, and it is the same
\* when the dispatch returns.
C28_CountOneLower ==
    /\ [][ disp[1].pc = "idle" /\ disp'[1].pc = "process"
           => Len(inbox'[1]) = Len(inbox[1]) - 1 ]_vars
    /\ [][ DispatchingStateRule => Len(inbox'[1]) = Len(inbox[1]) ]_vars
    /\ [](DispatchedStateRule => Len(ActionCalls(last.calls)) <= 1)

\* C28 (amended): a dispatch of a signal that has a rule in the current
\* state takes exactly one signal, the head, off the inbox and invokes that
\* rule's action at most once (not at all when a middleware filters or
\* handles the signal); until it returns the inbox changes only by the
\* signals emitted to the entity meanwhile, which are added behind the
\* signals that were waiting.
C28_OneSlotConsumed ==
    /\ [][ disp[1].pc = "idle" /\ disp'[1].pc = "process"
           => /\ inbox[1] # << >>
              /\ disp'[1].sig = Head(inbox[1])
              /\ inbox'[1] = Tail(inbox[1]) ]_vars
    /\ [][ DispatchingStateRule
           => /\ Len(inbox'[1]) >= Len(inbox[1])
              /\ SubSeq(inbox'[1], 1, Len(inbox[1])) = inbox[1]
              /\ disp'[1].pc = "idle" => inbox'[1] = inbox[1] ]_vars
    /\ [](DispatchedStateRule
          => ActionCalls(last.calls) \in
                { << >>, ActionCall(find_rule_in_state(find_state(last.from),
                                                      last.sig.id)) })

\* a signal with a rule in the current state was dispatched and the rule's
\* action ran once, while another signal waited in the inbox
C28_Witness ==
    /\ DispatchedStateRule /\ Len(ActionCalls(last.calls)) = 1
    /\ Len(inbox[1]) = 1

(* ------------------------------------------------------------------ *)
(* Specification of a middleware chain: the ACL middleware registered  *)
(* twice around the supervisor's middleware                            *)
(* ------------------------------------------------------------------ *)
ChainSigs == {ur_signal_create(SIG_POWER_OFF, 0),
              ur_signal_create(SIG_SYS_DYING, 2)}
ChainRule == [src_id |-> UR_ACL_SRC_EXTERNAL, signal_id |-> SIG_POWER_OFF,
              action |-> "UR_ACL_DENY", priority |-> 10]

\* ur_register_middleware(ent, ur_mw_supervisor, NULL, priority)
ur_register_middleware(e, priority) ==
    \E r \in {ur_register_middleware_res(ents[e], "ur_mw_supervisor", priority)} :
       /\ disp[e].pc = "idle"
       /\ ents' = [ents EXCEPT ![e] = r.ent]
       /\ last' = [op |-> "ur_register_middleware", ent |-> e, err |-> r.err]
       /\ UNCHANGED << inbox, disp, extVars >>

NextChain ==
    \/ ur_start(1)
    \/ \E s \in ChainSigs : inbox[1] = << >> /\ ur_emit(1, s)
    \/ AclFiltered(g_acl) <= MaxAclChecks /\ ur_dispatch_receive(1)
    \/ ur_dispatch_process(1)
    \/ AclRuleCount(g_acl, 1) = 0 /\ ur_acl_add_rule(1, ChainRule)
    \/ Len(ents[1].middleware) < 3 /\ ur_acl_enable_middleware(1)
    \/ Len(ents[1].middleware) < 3 /\ ur_register_middleware(1, 0)
    \/ g_sup.supervisors = << >> /\ ur_supervisor_create(1, MaxRestarts)

SpecChain == Init /\ [][NextChain]_vars

\* the enabled ACL middlewares in front of the first enabled middleware
\* with the function fn
AclInFrontOf(mw, fn) ==
    LET hits == {i \in 1 .. Len(mw) : mw[i].fn = fn /\ mw[i].enabled}
        first == CHOOSE i \in hits : \A j \in hits : i <= j
    IN Cardinality({i \in 1 .. first - 1 :
                       mw[i].fn = "ur_acl_middleware" /\ mw[i].enabled})

\* C29: a dispatch whose middleware chain returns FILTERED or HANDLED
\* ends there: no later middleware is invoked (the ACL statistics count
\* the one denial of the first ACL middleware when it filters, and only
\* the ACL middlewares in front of the supervisor's middleware when that
\* one handles the signal), no rule is looked up, no action or transition
\* runs, and the entity is left as it was.
C29_FilteredEndsDispatch ==
    [][ /\ disp[1].pc = "process" /\ disp'[1].pc = "idle"
        /\ last'.mw \in {"UR_MW_FILTERED", "UR_MW_HANDLED"}
        => /\ ents'[1] = ents[1]
           /\ ~last'.looked_up /\ last'.rule = NoRule /\ last'.calls = << >>
           /\ g_acl'.stats.denied_count - g_acl.stats.denied_count
                 = IF last'.mw = "UR_MW_FILTERED" THEN 1 ELSE 0
           /\ g_acl'.stats.allowed_count - g_acl.stats.allowed_count
                 = IF last'.mw = "UR_MW_FILTERED" THEN 0
                   ELSE AclInFrontOf(ents[1].middleware, "ur_mw_supervisor") ]_vars

\* the first of two ACL middlewares has filtered a signal that the state
\* has a rule for
C29_Witness ==
    /\ Dispatched /\ last.mw = "UR_MW_FILTERED"
    /\ Len(SelectSeq(ents[1].middleware,
                     LAMBDA m : m.fn = "ur_acl_middleware" /\ m.enabled)) = 2
    /\ find_rule_in_state(find_state(last.from), last.sig.id).owner # "none"

\* the supervisor's middleware has handled a dying report in front of an
\* ACL middleware
HandledInFrontOfAcl ==
    /\ Dispatched /\ last.mw = "UR_MW_HANDLED"
    /\ Len(ents[1].middleware) = 3
    /\ ents[1].middleware[2].fn = "ur_mw_supervisor"
    /\ ents[1].middleware[3].fn = "ur_acl_middleware"

(* ------------------------------------------------------------------ *)
(* Specification of the rule lookup: two mixins bound in either order, *)
(* signals with rules in the state, in the mixins and in the parent    *)
(* ------------------------------------------------------------------ *)
NextMixin ==
    \/ ur_start(1)
    \/ \E m \in {"power_mixin", "override_mixin"} : ur_bind_mixin(1, m)
    \/ \E s \in {SIG_POWER_OFF, SIG_LOW_BATTERY, SIG_FAN_ON, SIG_TEMP_READING} :
          ur_emit(1, ur_signal_create(s, 0))
    \/ ur_dispatch_receive(1)
    \/ ur_dispatch_process(1)

SpecMixin == Init /\ [][NextMixin]_vars

\* the rules of a set of mixins, the mixins in ascending priority
RECURSIVE RulesByPriority(_)
RulesByPriority(S) ==
    IF S = {} THEN << >>
    ELSE LET m == CHOOSE m \in S :
                     \A k \in S : MixinTable[m].priority <= MixinTable[k].priority
         IN MixinTable[m].rules \o RulesByPriority(S \ {m})

\* the rules of the states from the state sid upward along the parents
RECURSIVE RulesUpward(_, _)
RulesUpward(sid, n) ==
    IF n = 0 \/ find_state(sid).id = 0 THEN << >>
    ELSE find_state(sid).rules \o RulesUpward(find_state(sid).parent_id, n - 1)

\* the rules in the order of the lookup: the current state's, the bound
\* mixins' by priority, the ancestors' from the parent upward
RulesInOrder(E) ==
    find_state(E.current_state).rules
    \o RulesByPriority({E.mixins[i] : i \in 1 .. Len(E.mixins)})
    \o RulesUpward(find_state(E.current_state).parent_id, Len(StateTable))

\* the first rule for the signal in a sequence of rules, as signal id,
\* next state and action; NoRule's when there is none
FirstFor(rules, signal_id) ==
    LET hits == {i \in 1 .. Len(rules) : rules[i].signal_id = signal_id}
    IN IF hits = {} THEN UR_RULE(0, 0, "none")
       ELSE rules[CHOOSE i \in hits : \A j \in hits : i <= j]

NotDispatchable(E) == "ACTIVE" \notin E.flags \/ "SUSPENDED" \in E.flags

\* C31: ur_dispatch on an entity that is not active or is suspended returns
\* UR_ERR_INVALID_STATE and changes nothing: the inbox, the entity, the
\* position of the dispatcher and the ACL statistics stay as they are; an
\* emit to such an entity is appended while a slot is free and refused with
\* UR_ERR_QUEUE_FULL, the inbox unchanged, when none is.
C31_InvalidStateDoesNothing ==
    /\ [][ ( /\ NotDispatchable(ents[1]) /\ disp[1].pc = "idle"
             /\ last'.op \in {"ur_dispatch", "ur_dispatch_receive"} )
           => ( /\ last'.op = "ur_dispatch"
                /\ last'.err = "UR_ERR_INVALID_STATE"
                /\ UNCHANGED << ents, inbox, disp, extVars >> ) ]_vars
    /\ [][ (NotDispatchable(ents[1]) /\ last'.op = "ur_emit")
           => IF Len(inbox[1]) < InboxSize
              THEN /\ inbox'[1] = Append(inbox[1], last'.sig)
                   /\ last'.err = "UR_OK"
              ELSE /\ inbox' = inbox
                   /\ last'.err = "UR_ERR_QUEUE_FULL" ]_vars

\* a suspended, started entity with a full inbox has been dispatched
C31_Witness ==
    /\ last.op = "ur_dispatch" /\ last.err = "UR_ERR_INVALID_STATE"
    /\ ents[1].flags = {"ACTIVE", "SUSPENDED"}
    /\ Len(inbox[1]) = InboxSize

(* ------------------------------------------------------------------ *)
(* Specification of the inbox: producers in task and interrupt context *)
(* and the dispatcher                                                  *)
(* ------------------------------------------------------------------ *)
EmitSigs == {SIG_TEMP_READING, SIG_FAN_ON, SIG_POWER_OFF}

NextEmit ==
    \/ ur_start(1)
    \/ \E s \in EmitSigs : ur_emit(1, ur_signal_create(s, 0))
    \/ \E s \in EmitSigs : ur_emit_from_isr(1, ur_signal_create(s, 0))
    \/ ur_dispatch_receive(1)
    \/ ur_dispatch_process(1)

SpecEmit == Init /\ [][NextEmit]_vars

\* C32: an emit to an entity whose inbox holds InboxSize signals, from a
\* task or from an interrupt handler, can always be made (it does not wait
\* for a slot), returns UR_ERR_QUEUE_FULL and leaves the inbox, contents
\* and order, as it was.
C32_FullInboxDropsNew ==
    /\ [](Len(inbox[1]) >= InboxSize
             => \A s \in EmitSigs :
                   /\ ENABLED ur_emit(1, ur_signal_create(s, 0))
                   /\ ENABLED ur_emit_from_isr(1, ur_signal_create(s, 0)))
    /\ [][ ( /\ Len(inbox[1]) >= InboxSize
             /\ last'.op \in {"ur_emit", "ur_emit_from_isr"} )
           => ( /\ last'.err = "UR_ERR_QUEUE_FULL"
                /\ inbox' = inbox ) ]_vars

\* an emit from an interrupt handler has been refused by a full inbox
\* that holds two different signals
C32_Witness ==
    /\ last.op = "ur_emit_from_isr" /\ last.err = "UR_ERR_QUEUE_FULL"
    /\ Len(inbox[1]) = InboxSize
    /\ inbox[1][1].id # inbox[1][2].id
    /\ last.sig.id # inbox[1][InboxSize].id

(* ------------------------------------------------------------------ *)
(* Specification of the lock counts: two entities lock and unlock two  *)
(* modes; every call and its result is recorded                       *)
(* ------------------------------------------------------------------ *)
\* calls of ur_power_lock and ur_power_unlock in a run
MaxCalls == 5

LockModes == {UR_POWER_LIGHT_SLEEP, UR_POWER_DEEP_SLEEP}
LockErrs == {"UR_OK", "UR_ERR_NOT_FOUND", "UR_ERR_NO_MEMORY", "UR_ERR_INVALID_ARG"}

ModesLocked(power) == {power.locks[i].mode : i \in 1 .. Len(power.locks)}

\* ur_power_lock; the call is recorded, and with the first reference to a
\* mode the allowed mode and the locked modes before it
ur_power_lock_recorded(e, mode) ==
    /\ BagCardinality(hist.lock_calls) + BagCardinality(hist.unlock_calls) < MaxCalls
    /\ \E r \in {ur_power_lock_res(g_power, e, mode)} :
          /\ g_power' = r.power
          /\ hist' = [hist EXCEPT
                !.lock_calls = @ (+) SetToBag({<< e, mode, r.err >>}),
                !.earlier = IF r.err = "UR_OK" /\ ~ur_power_is_locked(g_power, mode)
                            THEN [m \in DOMAIN @ \cup {mode} |->
                                    IF m = mode
                                    THEN [allowed |-> ur_power_get_allowed_mode_res(g_power),
                                          others |-> ModesLocked(g_power)]
                                    ELSE @[m]]
                            ELSE @]
          /\ last' = [op |-> "ur_power_lock", ent |-> e, mode |-> mode, err |-> r.err]
    /\ UNCHANGED << ents, inbox, disp, g_bus, g_acl, g_sup, g_entity_registry,
                    g_param, nvs, clock, walk, g_routes, pipe, decoder >>

ur_power_unlock_recorded(e, mode) ==
    /\ BagCardinality(hist.lock_calls) + BagCardinality(hist.unlock_calls) < MaxCalls
    /\ \E r \in {ur_power_unlock_res(g_power, e, mode)} :
          /\ g_power' = r.power
          /\ hist' = [hist EXCEPT
                !.unlock_calls = @ (+) SetToBag({<< e, mode, r.err >>})]
          /\ last' = [op |-> "ur_power_unlock", ent |-> e, mode |-> mode, err |-> r.err]
    /\ UNCHANGED << ents, inbox, disp, g_bus, g_acl, g_sup, g_entity_registry,
                    g_param, nvs, clock, walk, g_routes, pipe, decoder >>

NextLockCount ==
    \/ \E e \in {1, 2}, m \in LockModes : ur_power_lock_recorded(e, m)
    \/ \E e \in {1, 2}, m \in LockModes : ur_power_unlock_recorded(e, m)

SpecLockCount == Init /\ [][NextLockCount]_vars

\* calls of entity e for mode m in a bag of calls, with a result in errs
RECURSIVE CallsIn(_, _, _, _)
CallsIn(bag, e, m, errs) ==
    IF errs = {} THEN 0
    ELSE LET x == CHOOSE x \in errs : TRUE
         IN CopiesIn(<< e, m, x >>, bag) + CallsIn(bag, e, m, errs \ {x})

\* an unlock changes the allowed mode only when it releases the last
\* reference to its mode, and then, the other modes locked as they were
\* when the mode was first locked, to the allowed mode of that moment
UnlockRestoresAllowed ==
    [][ (last'.op = "ur_power_unlock" /\ hist' # hist)
        => /\ ur_power_get_allowed_mode_res(g_power')
                 # ur_power_get_allowed_mode_res(g_power)
              => /\ ur_power_is_locked(g_power, last'.mode)
                 /\ ~ur_power_is_locked(g_power', last'.mode)
           /\ ( /\ ur_power_is_locked(g_power, last'.mode)
                /\ ~ur_power_is_locked(g_power', last'.mode)
                /\ ModesLocked(g_power') = hist.earlier[last'.mode].others )
              => ur_power_get_allowed_mode_res(g_power')
                    = hist.earlier[last'.mode].allowed ]_vars

UR_CFG_SIGNAL_PAYLOAD_SIZE == 4

\* an encoder whose CRC covers the sync byte, too
ur_codec_encode_binary_crc_all(sig, payload_size, buf_size, fill) ==
    LET header == << UR_CODEC_SYNC_BYTE, payload_size % 256,
                     (payload_size \div 256) % 256, sig.id % 256,
                     sig.id \div 256, sig.src_id % 256, sig.src_id \div 256 >>
        copied == Min(payload_size, UR_CFG_SIGNAL_PAYLOAD_SIZE)
        body == SubSeq(sig.payload, 1, copied)
                   \o [i \in 1 .. payload_size - copied |-> fill]
        crc == ur_crc16(header \o body)
    IN IF buf_size < UR_CODEC_HEADER_SIZE + payload_size + UR_CODEC_CRC_SIZE
       THEN [err |-> "UR_ERR_NO_MEMORY", frame |-> << >>]
       ELSE [err |-> "UR_OK",
             frame |-> header \o body \o << crc % 256, crc \div 256 >>]

\* ur_codec_encode_binary; payload_size is the schema's or the default,
\* fill is what the caller's buffer holds where memcpy writes nothing
ur_codec_encode_binary_res(sig, payload_size, buf_size, fill) ==
    LET header == << UR_CODEC_SYNC_BYTE, payload_size % 256,
                     (payload_size \div 256) % 256, sig.id % 256,
                     sig.id \div 256, sig.src_id % 256, sig.src_id \div 256 >>
        copied == Min(payload_size, UR_CFG_SIGNAL_PAYLOAD_SIZE)
        body == SubSeq(sig.payload, 1, copied)
                   \o [i \in 1 .. payload_size - copied |-> fill]
        crc == ur_crc16(Tail(header \o body))
    IN IF buf_size < UR_CODEC_HEADER_SIZE + payload_size + UR_CODEC_CRC_SIZE
       THEN [err |-> "UR_ERR_NO_MEMORY", frame |-> << >>]
       ELSE [err |-> "UR_OK",
             frame |-> header \o body \o << crc % 256, crc \div 256 >>]

NoPayload == [i \in 1 .. UR_CFG_SIGNAL_PAYLOAD_SIZE |-> 0]
NoResult == [id |-> 0, src_id |-> 0, payload |-> NoPayload]

\* ur_codec_decode_binary on the bytes data; start counts from 0 as in C
ur_codec_decode_binary_res(data) ==
    LET len == Len(data)
        syncs == {i \in 0 .. len - 1 : data[i + 1] = UR_CODEC_SYNC_BYTE}
        start == IF syncs = {} THEN len
                 ELSE CHOOSE i \in syncs : \A j \in syncs : i <= j
        frame == SubSeq(data, start + 1, len)
        out(err, consumed, complete, signal) ==
            [err |-> err, consumed |-> consumed, complete |-> complete,
             signal |-> signal]
        parse(total_len, payload_len) ==
            IF len - start < total_len
            THEN out("UR_ERR_TIMEOUT", start, FALSE, NoResult)
            ELSE IF frame[total_len - 1] + 256 * frame[total_len]
                       # ur_crc16(SubSeq(frame, 2, total_len - 2))
            THEN out("UR_ERR_INVALID_ARG", start + 1, FALSE, NoResult)
            ELSE out("UR_OK", start + total_len, TRUE,
                     [id |-> frame[4] + 256 * frame[5],
                      src_id |-> frame[6] + 256 * frame[7],
                      payload |-> [i \in 1 .. UR_CFG_SIGNAL_PAYLOAD_SIZE |->
                          IF i <= Min(payload_len, UR_CFG_SIGNAL_PAYLOAD_SIZE)
                          THEN frame[UR_CODEC_HEADER_SIZE + i] ELSE 0]])
    IN IF len < UR_CODEC_HEADER_SIZE
       THEN out("UR_ERR_TIMEOUT", 0, FALSE, NoResult)
       ELSE IF start >= len
       THEN out("UR_ERR_TIMEOUT", len, FALSE, NoResult)
       ELSE IF len - start < UR_CODEC_HEADER_SIZE
       THEN out("UR_ERR_TIMEOUT", start, FALSE, NoResult)
       ELSE parse(UR_CODEC_HEADER_SIZE + frame[2] + 256 * frame[3]
                     + UR_CODEC_CRC_SIZE,
                  frame[2] + 256 * frame[3])

\* signals, schema payload sizes and buffers of the application
CodecSignals ==
    [id : {SIG_FAN_ON, 341, 65535}, src_id : {0, 3, 21845},
     payload : {NoPayload, << 1, 2, 3, 4 >>, << 85, 255, 0, 85 >>}]
CodecPayloadSizes == {0, 2, UR_CFG_SIGNAL_PAYLOAD_SIZE, 6}
CodecBufSizes == {UR_CODEC_HEADER_SIZE + UR_CODEC_CRC_SIZE + 3, 64}

ur_codec_encode_binary(sig, payload_size, buf_size, fill) ==
    /\ \E r \in {ur_codec_encode_binary_res(sig, payload_size, buf_size, fill)} :
          last' = [op |-> "ur_codec_encode_binary", sig |-> sig,
                   payload_size |-> payload_size, err |-> r.err,
                   frame |-> r.frame]
    /\ UNCHANGED << ents, inbox, disp, extVars >>

\* the frame of the last encoding is decoded
ur_codec_decode_encoded ==
    /\ last.op = "ur_codec_encode_binary" /\ last.err = "UR_OK"
    /\ \E r \in {ur_codec_decode_binary_res(last.frame)} :
          last' = [op |-> "ur_codec_decode_binary", sent |-> last.sig,
                   payload_size |-> last.payload_size, len |-> Len(last.frame),
                   err |-> r.err, complete |-> r.complete,
                   consumed |-> r.consumed, signal |-> r.signal]
    /\ UNCHANGED << ents, inbox, disp, extVars >>

\* one signal is encoded and its frame decoded
NextCodec ==
    \/ /\ last.op = "none"
       /\ \E sig \in CodecSignals, w \in CodecPayloadSizes, n \in CodecBufSizes,
             fill \in {0, 170} : ur_codec_encode_binary(sig, w, n, fill)
    \/ ur_codec_decode_encoded

SpecCodec == Init /\ [][NextCodec]_vars

\* C34: decoding the frame that ur_codec_encode_binary has produced for a
\* signal returns UR_OK with a complete result that consumes the frame,
\* and the signal of the result has the id, the source id and the first w
\* payload bytes of the encoded one, w the payload size in the frame (the
\* payload has UR_CFG_SIGNAL_PAYLOAD_SIZE bytes; the ones behind w are 0).
C34_RoundTrip ==
    last.op = "ur_codec_decode_binary"
       => /\ last.err = "UR_OK" /\ last.complete
          /\ last.consumed = last.len
          /\ last.signal.id = last.sent.id
          /\ last.signal.src_id = last.sent.src_id
          /\ \A i \in 1 .. UR_CFG_SIGNAL_PAYLOAD_SIZE :
                last.signal.payload[i]
                   = IF i <= last.payload_size THEN last.sent.payload[i] ELSE 0

\* a signal whose id, source and payload hold the sync byte has made the
\* round trip with a payload size of 2
C34_Witness ==
    /\ last.op = "ur_codec_decode_binary" /\ last.err = "UR_OK"
    /\ last.sent = [id |-> 341, src_id |-> 21845, payload |-> << 85, 255, 0, 85 >>]
    /\ last.payload_size = 2
    /\ last.signal.payload = << 85, 255, 0, 0 >>

(* ------------------------------------------------------------------ *)
(* Flow state across transitions and stop                              *)
(* ------------------------------------------------------------------ *)
\* a transition has just been made or the entity has just been stopped
JustTransitioned ==
    \/ last.op \in {"ur_set_state", "ur_stop"} /\ last.err = "UR_OK"
    \/ last.op = "ur_dispatch" /\ last.err = "UR_OK" /\ last.from # last.to

\* C35: after a transition, made by a rule of a dispatch or forced with
\* ur_set_state, and after ur_stop, the resume line, the awaited signal id
\* and the wake time of the entity are zero.
C35_FlowZeroAfterTransition ==
    JustTransitioned
       => /\ ents[1].flow_line = 0
          /\ ents[1].flow_wait_sig = SIG_NONE
          /\ ents[1].flow_wait_until = 0

\* a flow that was waiting for a signal has been cut off by a forced
\* transition
C35_Witness ==
    /\ last.op = "ur_set_state" /\ last.err = "UR_OK"
    /\ last.flow_before.line = FLOW_LINE_AWAIT
    /\ last.flow_before.wait_sig = SIG_FAN_ON
    /\ FlowOf(ents[1]) = FlowZero

(* ------------------------------------------------------------------ *)
(* ur_set_state with callbacks that call ur_set_state themselves.      *)
(* cb = [on, state, target]: the on_exit (on = "exit") or on_entry     *)
(* (on = "entry") action of cb.state calls ur_set_state(ent, cb.target) *)
(* the first nest times it runs; on = "none": no callback does.        *)
(* ------------------------------------------------------------------ *)
\* nested calls of ur_set_state a callback makes
MaxNest == 1

RECURSIVE ur_set_state_cb_res(_, _, _, _)
ur_set_state_cb_res(E, state_id, cb, nest) ==
    LET \* what a callback of kind on of state sid does to the entity
        callback(on, sid, B) ==
            IF cb.on = on /\ cb.state = sid /\ nest > 0
            THEN ur_set_state_cb_res(B, cb.target, cb, nest - 1)
            ELSE [err |-> "UR_OK", ent |-> B, calls |-> << >>]
        \* "Exit current state if active"
        exited(c) == [ent |-> flow_reset(c.ent),
                      calls |-> << << "on_exit", E.current_state >> >> \o c.calls]
        x == IF E.current_state = 0 THEN [ent |-> E, calls |-> << >>]
             ELSE IF find_state(E.current_state).on_exit
             THEN exited(callback("exit", E.current_state, E))
             ELSE [ent |-> flow_reset(E), calls |-> << >>]
        \* "Enter new state"
        entered(calls, c) ==
            [err |-> "UR_OK", ent |-> c.ent,
             calls |-> calls \o << << "on_entry", state_id >> >> \o c.calls]
        swapped(B, calls) ==
            IF find_state(state_id).on_entry
            THEN entered(calls, callback("entry", state_id, B))
            ELSE [err |-> "UR_OK", ent |-> B, calls |-> calls]
    IN IF find_state(state_id).id = 0
       THEN [err |-> "UR_ERR_NOT_FOUND", ent |-> E, calls |-> << >>]
       ELSE swapped([x.ent EXCEPT !.current_state = state_id], x.calls)

Callbacks ==
    {[on |-> "none", state |-> 0, target |-> 0]}
    \cup [on : {"exit", "entry"},
          state : {STATE_CTRL_STANDBY, STATE_CTRL_NORMAL},
          target : {STATE_CTRL_STANDBY, STATE_CTRL_NORMAL, STATE_CTRL_COOLING}]

ur_set_state_cb(e, state_id, cb) ==
    \E r \in {ur_set_state_cb_res(ents[e], state_id, cb, MaxNest)} :
       /\ disp[e].pc = "idle"
       /\ ents' = [ents EXCEPT ![e] = r.ent]
       /\ last' = [op |-> "ur_set_state", ent |-> e, arg |-> state_id,
                   cb |-> cb, err |-> r.err, calls |-> r.calls]
       /\ UNCHANGED << inbox, disp, extVars >>

NextReenter ==
    \/ ur_start(1)
    \/ ur_stop(1)
    \/ \E s \in SetStateArgs, cb \in Callbacks : ur_set_state_cb(1, s, cb)

SpecReenter == Init /\ [][NextReenter]_vars

\* The callbacks of a call, in their order, are paired: cur is the state
\* that has been entered and not yet exited (0: none).  on_exit runs for
\* cur only; on_entry runs when no state with an on_exit action is still
\* to be exited; at the end the state entered is the state of the entity
\* (a state without the action counts as exited, or entered, silently).
RECURSIVE PairedLog(_, _, _, _)
PairedLog(calls, i, cur, to) ==
    IF i > Len(calls)
    THEN \/ cur = to
         \/ ~find_state(cur).on_exit /\ ~find_state(to).on_entry
    ELSE IF calls[i][1] = "on_exit"
    THEN calls[i][2] = cur /\ PairedLog(calls, i + 1, 0, to)
    ELSE /\ ~find_state(cur).on_exit
         /\ PairedLog(calls, i + 1, calls[i][2], to)

\* C36: in every successful ur_set_state, ur_start and ur_stop the on_exit
\* and on_entry calls are paired: on_exit runs once, for the state the
\* entity is in, before the on_entry of the next state, also when an
\* on_exit or on_entry action calls ur_set_state itself.
C36_EntryExitPaired ==
    [][ (last'.op \in {"ur_set_state", "ur_start", "ur_stop"}
            /\ last' # last /\ last'.err = "UR_OK")
        => PairedLog(last'.calls, 1, ents[1].current_state,
                     ents'[1].current_state) ]_vars

\* the same without a call of ur_set_state from an on_exit action
PairedUnlessExitReenters ==
    [][ (last'.op \in {"ur_set_state", "ur_start", "ur_stop"}
            /\ last' # last /\ last'.err = "UR_OK"
            /\ (last'.op = "ur_set_state" => last'.cb.on # "exit"))
        => PairedLog(last'.calls, 1, ents[1].current_state,
                     ents'[1].current_state) ]_vars

(* ------------------------------------------------------------------ *)
(* Specification of a byte stream read through the streaming decoder:  *)
(* the stream is fed in chunks of any sizes; the bytes fed and the     *)
(* signals decoded so far are recorded                                 *)
(* ------------------------------------------------------------------ *)
FrameA == wire_frame(ur_signal_create(SIG_FAN_ON, 3))
FrameB == wire_frame(ur_signal_create(SIG_TEMP_READING, 0))

\* what the line delivers: two frames back to back, in both orders, one
\* frame twice, noise in front, and a damaged frame between two good ones
Streams ==
    { FrameA \o FrameB, FrameB \o FrameA, FrameA \o FrameA,
      << 0, 1 >> \o FrameA \o FrameB,
      FrameA \o [FrameB EXCEPT ![Len(FrameB)] = (@ + 1) % 256] \o FrameB }

\* ur_codec_decoder_init, and the stream the line will deliver
stream_open(stream) ==
    /\ last.op = "none"
    /\ decoder' = DecoderReset
    /\ last' = [op |-> "ur_codec_decoder_init", stream |-> stream,
                fed |-> << >>, out |-> << >>]
    /\ UNCHANGED << ents, inbox, disp, g_power, g_bus, g_acl, g_sup,
                    g_entity_registry, g_param, nvs, clock, walk, g_routes,
                    pipe, hist >>

\* ur_codec_decoder_feed with the next len bytes of the stream
stream_feed(len) ==
    /\ last.op \in {"ur_codec_decoder_init", "ur_codec_decoder_feed"}
    /\ Len(last.fed) + len <= Len(last.stream)
    /\ \E data \in {SubSeq(last.stream, Len(last.fed) + 1, Len(last.fed) + len)} :
       \E r \in {decoder_feed_from(decoder, data, 1, FALSE)} :
          /\ decoder' = r.decoder
          /\ last' = [op |-> "ur_codec_decoder_feed", stream |-> last.stream,
                      fed |-> last.fed \o data,
                      out |-> IF r.err = "UR_OK" THEN Append(last.out, r.sig)
                              ELSE last.out,
                      len |-> len, err |-> r.err]
    /\ UNCHANGED << ents, inbox, disp, g_power, g_bus, g_acl, g_sup,
                    g_entity_registry, g_param, nvs, clock, walk, g_routes,
                    pipe, hist >>

NextStream ==
    \/ \E stream \in Streams : stream_open(stream)
    \/ \E len \in 1 .. 3 * Len(FrameA) : stream_feed(len)

SpecStream == Init /\ [][NextStream]_vars

\* the signals decoded from the bytes data[i..] fed one byte a call
RECURSIVE DecodeBytewise(_, _, _, _)
DecodeBytewise(dec, data, i, out) ==
    LET next(r) == DecodeBytewise(r.decoder, data, i + 1,
                      IF r.err = "UR_OK" THEN Append(out, r.sig) ELSE out)
    IN IF i > Len(data) THEN out
       ELSE next(decoder_feed_from(dec, << data[i] >>, 1, FALSE))

\* C37: the signals decoded from a byte stream do not depend on the sizes
\* of the chunks it is fed in: at any point they are the signals decoded
\* from the same bytes fed one at a time.
C37_ChunkingIrrelevant ==
    last.op = "ur_codec_decoder_feed"
       => last.out = DecodeBytewise(DecoderReset, last.fed, 1, << >>)

(* ------------------------------------------------------------------ *)
(* The first dispatch after ur_start                                   *)
(* ------------------------------------------------------------------ *)
\* C38: the signal a dispatch takes from the inbox right after ur_start
\* has returned UR_OK is SIG_SYS_INIT, whatever was emitted to the entity
\* before it was started or while it was stopped.
C38_InitDispatchedFirst ==
    [][ ( /\ last.op = "ur_start" /\ last.err = "UR_OK"
          /\ last'.op = "ur_dispatch_receive" )
        => last'.sig.id = SIG_SYS_INIT ]_vars

(* ------------------------------------------------------------------ *)
(* Specification of the restart of a child that its own task suspends, *)
(* resumes and dispatches: supervisor 1, child 2                       *)
(* ------------------------------------------------------------------ *)
NextRestart ==
    \/ ur_supervisor_create(1, MaxRestarts)
    \/ ur_supervisor_add_child(1, 2)
    \/ ur_start(2)
    \/ ur_suspend(2)
    \/ ur_resume(2)
    \/ /\ ur_get_restart_count(g_sup, 2) <= MaxRestarts
       /\ ur_report_dying(2)
    \/ restart_timer_callback
    \/ ur_dispatch_receive(2)
    \/ ur_dispatch_process(2)

SpecRestart == Init /\ [][NextRestart]_vars

\* C39: after restart_timer_callback has restarted a child, the child is
\* active in its initial state, and a ur_dispatch of it that follows (its
\* inbox holds SIG_SYS_INIT and SIG_SYS_REVIVE) does not return
\* UR_ERR_INVALID_STATE, whatever flags the child had before.
C39_RestartedChildDispatches ==
    /\ []( (last.op = "restart_timer_callback" /\ last.ent # 0)
              => /\ "ACTIVE" \in ents[last.ent].flags
                 /\ ents[last.ent].current_state = ents[last.ent].initial_state )
    /\ [][ ( /\ last.op = "restart_timer_callback" /\ last.ent = 2
             /\ disp[2].pc = "idle" /\ inbox[2] # << >>
             /\ last'.op \in {"ur_dispatch", "ur_dispatch_receive"} )
           => last'.op = "ur_dispatch_receive" ]_vars

(* ------------------------------------------------------------------ *)
(* Specification of the topic table: an entity that subscribes to one  *)
(* topic at a time, a new one or one it has used before, and           *)
(* unsubscribes again                                                   *)
(* ------------------------------------------------------------------ *)
\* ur_bus_topic_count: the topics with at least one subscriber
ur_bus_topic_count(bus) ==
    Cardinality({i \in 1 .. Len(bus.topics) : Len(bus.topics[i].subscribers) > 0})

\* one topic id more than the table has slots
TopicIds == SIG_TEMP_READING .. SIG_TEMP_READING + UR_CFG_BUS_MAX_TOPICS

NextTopics ==
    \/ /\ ur_bus_topic_count(g_bus) = 0
       /\ \E t \in TopicIds :
             /\ t <= SIG_TEMP_READING + Len(g_bus.topics)
             /\ ur_subscribe(1, t)
    \/ \E t \in TopicIds :
          /\ find_topic(g_bus, t) # 0
          /\ is_subscribed_to_topic(g_bus.topics[find_topic(g_bus, t)], 1)
          /\ ur_unsubscribe(1, t)

SpecTopics == Init /\ [][NextTopics]_vars

\* C40: ur_subscribe to a topic that is not in the table returns UR_OK
\* whenever ur_bus_topic_count() is below UR_CFG_BUS_MAX_TOPICS.
C40_TopicSlotsReusable ==
    [][ ( /\ last'.op = "ur_subscribe"
          /\ find_topic(g_bus, last'.topic) = 0
          /\ ur_bus_topic_count(g_bus) < UR_CFG_BUS_MAX_TOPICS )
        => last'.err = "UR_OK" ]_vars

====
